---- MODULE Spec2Model ----
(***************************************************************************)
(* Runtime schema-validation layer of job-finder-shared-types: the type    *)
(* guards of src/guards.ts (API envelope, scalar refinements) and of the   *)
(* entity guard file (queue items, settings, job matches, resume intake    *)
(* data, content items), applied to untyped JavaScript values; and the     *)
(* safe test runner (SafeTestRunner), whose processes share one lock file. *)
(*                                                                         *)
(* A JavaScript value is a record [t |-> kind, v |-> payload]:             *)
(*   undefined, null, boolean, number (integer payload), nan, fraction,    *)
(*   string, array (sequence of values), object (function from the keys    *)
(*   present to values), date (native Date), function.                     *)
(***************************************************************************)
EXTENDS Integers, Sequences, FiniteSets, TLC

VARIABLES
    value,      \* the value handed to the guards
    origin,     \* "caller" (untyped external data) or the constructor that built value
    args,       \* the arguments the constructor was called with (<<>> for "caller")
    called,     \* the guard called last ("none" before any call)
    verdict,    \* what that guard returned (FALSE when it raised)
    raised,     \* the error the last call raised ("none" when it returned)
    lockFile,   \* test runner: what LOCK_FILE holds (NoFile when it does not exist)
    now,        \* test runner: Date.now(), in minutes
    runners     \* test runner: the SafeTestRunner processes

guardVars == <<value, origin, args, called, verdict, raised>>
runnerVars == <<lockFile, now, runners>>
vars == <<value, origin, args, called, verdict, raised, lockFile, now, runners>>

---------------------------------------------------------------------------
(* The safe test runner: the state no runner has touched *)

NumRunners == 2
Runners == 1..NumRunners

\* fs.existsSync(LOCK_FILE) is false
NoFile == [pid |-> 0, startTime |-> 0]

\* a process that was not started
NotStarted ==
    [pc |-> "none", startTime |-> 0, lockAcquired |-> FALSE, exitWith |-> 0,
     caught |-> FALSE, exitCode |-> -1]

NoRunner ==
    /\ lockFile = NoFile
    /\ now = 0
    /\ runners = [p \in Runners |-> NotStarted]

---------------------------------------------------------------------------
(* JavaScript values *)

Undefined == [t |-> "undefined"]
Null == [t |-> "null"]
Bool(b) == [t |-> "boolean", v |-> b]
JSTrue == Bool(TRUE)
JSFalse == Bool(FALSE)
Num(n) == [t |-> "number", v |-> n]
NaN == [t |-> "nan"]
Frac == [t |-> "fraction", v |-> <<3, 2>>]
Str(s) == [t |-> "string", v |-> s]
Arr(items) == [t |-> "array", v |-> items]
Obj(fields) == [t |-> "object", v |-> fields]
DateOf(ms) == [t |-> "date", v |-> ms]
Fn == [t |-> "function"]

\* the object with no own keys
NoKeys == [k \in {} |-> Undefined]
EmptyObj == Obj(NoKeys)

\* the typeof operator
TypeOf(x) ==
    CASE x.t = "undefined" -> "undefined"
      [] x.t = "boolean" -> "boolean"
      [] x.t \in {"number", "nan", "fraction"} -> "number"
      [] x.t = "string" -> "string"
      [] x.t = "function" -> "function"
      [] OTHER -> "object"

\* ToBoolean: undefined, null, false, 0, NaN and "" are falsy
Truthy(x) ==
    CASE x.t \in {"undefined", "null", "nan"} -> FALSE
      [] x.t = "boolean" -> x.v
      [] x.t = "number" -> x.v # 0
      [] x.t = "string" -> x.v # ""
      [] OTHER -> TRUE

\* x === y on primitives
StrictEq(x, y) ==
    /\ x.t = y.t
    /\ CASE x.t \in {"boolean", "number", "string"} -> x.v = y.v
         [] x.t \in {"undefined", "null"} -> TRUE
         [] OTHER -> FALSE

\* Array.isArray
IsArray(x) == x.t = "array"

\* x instanceof Date
InstanceOfDate(x) == x.t = "date"

\* the `in` operator: k in x
In(k, x) == x.t = "object" /\ k \in DOMAIN x.v

\* property read x.k on a value that is neither null nor undefined
Get(x, k) == IF In(k, x) THEN x.v[k] ELSE Undefined

\* object literal pieces: { ...f, ...g } and the spread of a value
Merge(f, g) == [k \in DOMAIN f \cup DOMAIN g |-> IF k \in DOMAIN g THEN g[k] ELSE f[k]]
SpreadOf(x) == IF x.t = "object" THEN x.v ELSE NoKeys
\* a && b
AndAlso(a, b) == IF Truthy(a) THEN b ELSE a

\* marks a key left out of an object under construction
Absent == [t |-> "absent"]
MkObj(choice) ==
    Obj([k \in {j \in DOMAIN choice : choice[j].t # "absent"} |-> choice[k]])

With(o, k, x) == Obj(Merge(o.v, [j \in {k} |-> x]))
Without(o, k) == Obj([j \in DOMAIN o.v \ {k} |-> o.v[j]])

---------------------------------------------------------------------------
(* src/guards.ts: the API response envelope *)

\* isApiError that tests for an error payload instead of the discriminator
isApiErrorByPayload(response) == Truthy(Get(response, "error"))

isApiSuccess(response) == StrictEq(Get(response, "success"), JSTrue)

isApiError(response) == StrictEq(Get(response, "success"), JSFalse)

isApiResponseErrorArm(obj) ==
    LET error == Get(obj, "error") IN
    IF ~Truthy(error) \/ TypeOf(error) # "object" THEN FALSE
    ELSE /\ TypeOf(Get(error, "code")) = "string"
         /\ TypeOf(Get(error, "message")) = "string"

\* isApiResponse whose success arm tests obj.data !== undefined instead of "data" in obj
isApiResponseDataDefined(x) ==
    IF ~Truthy(x) \/ TypeOf(x) # "object" THEN FALSE
    ELSE IF TypeOf(Get(x, "success")) # "boolean" THEN FALSE
    ELSE IF StrictEq(Get(x, "success"), JSTrue) THEN Get(x, "data").t # "undefined"
    ELSE IF StrictEq(Get(x, "success"), JSFalse) THEN isApiResponseErrorArm(x)
    ELSE FALSE

isApiResponse(x) ==
    IF ~Truthy(x) \/ TypeOf(x) # "object" THEN FALSE
    ELSE IF TypeOf(Get(x, "success")) # "boolean" THEN FALSE
    ELSE IF StrictEq(Get(x, "success"), JSTrue) THEN In("data", x)
    ELSE IF StrictEq(Get(x, "success"), JSFalse) THEN isApiResponseErrorArm(x)
    ELSE FALSE

\* createSuccessResponse that spreads data conditionally, like message
createSuccessResponseDataSpread(data, message) ==
    Obj(Merge(Merge([success |-> JSTrue], SpreadOf(AndAlso(data, Obj([data |-> data])))),
              SpreadOf(AndAlso(message, Obj([message |-> message])))))

\* message is Undefined when the argument is not supplied
createSuccessResponse(data, message) ==
    Obj(Merge([success |-> JSTrue, data |-> data],
              SpreadOf(AndAlso(message, Obj([message |-> message])))))

\* createErrorResponse that writes the details key unconditionally
createErrorResponseAlwaysDetails(code, message, details) ==
    Obj([success |-> JSFalse,
         error |-> Obj([code |-> code, message |-> message, details |-> details])])

\* details is Undefined when the argument is not supplied
createErrorResponse(code, message, details) ==
    Obj([success |-> JSFalse,
         error |-> Obj(Merge([code |-> code, message |-> message],
                             SpreadOf(AndAlso(details, Obj([details |-> details])))))])

\* value.k on null or undefined raises a TypeError
ReadRaises(x) == x.t \in {"undefined", "null"}

\* k in value raises a TypeError unless value is an object
InRaises(x) == TypeOf(x) \notin {"object", "function"} \/ x.t = "null"

\* what the caller sees of a call that raises, or does not
Thrown(raises) == IF raises THEN "TypeError" ELSE "none"

\* whether isApiResponse(x) raises: the reads of obj.success, "data" in obj,
\* obj.error, error.code and error.message, in the order of evaluation
isApiResponseRaises(x) ==
    IF ~Truthy(x) \/ TypeOf(x) # "object" THEN FALSE
    ELSE IF ReadRaises(x) THEN TRUE
    ELSE IF TypeOf(Get(x, "success")) # "boolean" THEN FALSE
    ELSE IF StrictEq(Get(x, "success"), JSTrue) THEN InRaises(x)
    ELSE IF StrictEq(Get(x, "success"), JSFalse)
         THEN LET error == Get(x, "error") IN
              IF ~Truthy(error) \/ TypeOf(error) # "object" THEN FALSE
              ELSE ReadRaises(error)
    ELSE FALSE

---------------------------------------------------------------------------
(* The envelope values handed to the guards of src/guards.ts *)

ErrorObjects ==
    {MkObj(c) : c \in [code : {Absent, Str("X"), Str(""), Num(1), Null},
                       message : {Absent, Str("m"), Str(""), Num(2)},
                       details : {Absent, EmptyObj}]}

ErrorCands ==
    ErrorObjects \cup {Absent, Undefined, Null, Str("err"), Num(0), JSTrue, Arr(<<>>)}

ApiObjects ==
    {MkObj(c) : c \in [success : {Absent, JSTrue, JSFalse, Str("true"), Num(1), Null},
                       data : {Absent, Undefined, Null, EmptyObj, Num(0), Str("x")},
                       error : ErrorCands,
                       message : {Absent, Str("ok")}]}

NonObjects ==
    {Undefined, Null, JSTrue, JSFalse, Num(0), Num(1), NaN, Str(""), Str("x"),
     Arr(<<>>), Arr(<<Str("x")>>), DateOf(0), Fn}

ApiInputs == ApiObjects \cup NonObjects

\* arguments of the constructors (Undefined: the optional argument is not supplied)
DataArgs == {Undefined, Null, JSFalse, Num(0), Str(""), Str("x"), EmptyObj, Arr(<<>>)}
MessageArgs == {Undefined, Null, Str(""), Str("ok")}
CodeArgs == {Str(""), Str("X"), Str("NOT_FOUND")}
ErrorMessageArgs == {Str(""), Str("m")}
DetailsArgs == {Undefined, Null, EmptyObj, Obj([field |-> Str("x")])}

InitApi ==
    /\ value \in ApiInputs
    /\ origin = "caller"
    /\ args = <<>>
    /\ called = "none"
    /\ verdict = FALSE
    /\ raised = "none"
    /\ NoRunner

CallIsApiResponse ==
    /\ called' = "isApiResponse"
    /\ verdict' = (~isApiResponseRaises(value) /\ isApiResponse(value))
    /\ raised' = Thrown(isApiResponseRaises(value))
    /\ UNCHANGED <<value, origin, args, runnerVars>>

\* response.success on null or undefined throws: the narrowing guards take objects
CallIsApiSuccess ==
    /\ value.t \notin {"undefined", "null"}
    /\ called' = "isApiSuccess"
    /\ verdict' = isApiSuccess(value)
    /\ UNCHANGED <<value, origin, args, runnerVars>>
    /\ raised' = "none"

CallIsApiError ==
    /\ value.t \notin {"undefined", "null"}
    /\ called' = "isApiError"
    /\ verdict' = isApiError(value)
    /\ UNCHANGED <<value, origin, args, runnerVars>>
    /\ raised' = "none"

CallCreateSuccessResponse ==
    \E data \in DataArgs, message \in MessageArgs :
        /\ value' = createSuccessResponse(data, message)
        /\ origin' = "createSuccessResponse"
        /\ args' = <<data, message>>
        /\ called' = "none"
        /\ verdict' = FALSE
        /\ raised' = "none"
        /\ UNCHANGED runnerVars

CallCreateErrorResponse ==
    \E code \in CodeArgs, message \in ErrorMessageArgs, details \in DetailsArgs :
        /\ value' = createErrorResponse(code, message, details)
        /\ origin' = "createErrorResponse"
        /\ args' = <<code, message, details>>
        /\ called' = "none"
        /\ verdict' = FALSE
        /\ raised' = "none"
        /\ UNCHANGED runnerVars

NextApi ==
    \/ CallIsApiResponse
    \/ CallIsApiSuccess
    \/ CallIsApiError
    \/ CallCreateSuccessResponse
    \/ CallCreateErrorResponse

SpecApi == InitApi /\ [][NextApi]_vars

---------------------------------------------------------------------------
(* Claims about the API envelope, checked under SpecApi *)

Constructed == origin \in {"createSuccessResponse", "createErrorResponse"}

\* C1: every envelope built by createSuccessResponse(data, message) or by
\* createErrorResponse(code, message, details) is accepted by isApiResponse,
\* whatever the data (null and undefined included) and the optional arguments.
C1_RoundTrip ==
    (Constructed /\ called = "isApiResponse") => verdict = TRUE

C1_Witness ==
    /\ origin = "createSuccessResponse"
    /\ args = <<Undefined, Undefined>>
    /\ called = "isApiResponse"
    /\ verdict = TRUE

\* the shape the specification gives for an ApiResponse
WellFormedError(e) ==
    /\ e.t = "object"
    /\ "code" \in DOMAIN e.v /\ e.v["code"].t = "string"
    /\ "message" \in DOMAIN e.v /\ e.v["message"].t = "string"
ApiResponseShape(x) ==
    /\ x.t = "object"
    /\ "success" \in DOMAIN x.v
    /\ x.v["success"].t = "boolean"
    /\ \/ x.v["success"].v = TRUE /\ "data" \in DOMAIN x.v
       \/ x.v["success"].v = FALSE /\ "error" \in DOMAIN x.v /\ WellFormedError(x.v["error"])

\* C2: isApiResponse(v) is true exactly when v is a non-null object with a
\* boolean success and either success is true and the key data is present
\* (whatever its value) or success is false and error is a non-null object with
\* string code and string message; the five examples of the specification get
\* the verdicts it lists.
C2_IsApiResponseShape ==
    /\ called = "isApiResponse" => verdict = ApiResponseShape(value)
    /\ isApiResponse(Obj([success |-> JSTrue, data |-> EmptyObj]))
    /\ ~isApiResponse(Obj([success |-> JSTrue]))
    /\ isApiResponse(Obj([success |-> JSFalse,
                          error |-> Obj([code |-> Str("X"), message |-> Str("m")])]))
    /\ ~isApiResponse(Obj([success |-> JSFalse, error |-> Obj([code |-> Str("X")])]))
    /\ ~isApiResponse(EmptyObj)

C2_Witness ==
    /\ origin = "caller"
    /\ value = Obj([success |-> JSTrue, data |-> Undefined])
    /\ called = "isApiResponse"
    /\ verdict = TRUE

\* C8: a constructor never emits an optional key that was not supplied:
\* without a message the success envelope has exactly the keys success and
\* data, without details the error has exactly the keys code and message, and
\* no optional key is ever present with a null or undefined value.
C8_MinimalShape ==
    /\ origin = "createSuccessResponse" =>
          /\ args[2].t = "undefined" => DOMAIN value.v = {"success", "data"}
          /\ "message" \in DOMAIN value.v =>
                value.v["message"].t \notin {"undefined", "null"}
    /\ origin = "createErrorResponse" =>
          /\ DOMAIN value.v = {"success", "error"}
          /\ args[3].t = "undefined" => DOMAIN value.v["error"].v = {"code", "message"}
          /\ "details" \in DOMAIN value.v["error"].v =>
                value.v["error"].v["details"].t \notin {"undefined", "null"}

C8_Witness ==
    /\ origin = "createErrorResponse"
    /\ args[3].t = "undefined"
    /\ DOMAIN value.v["error"].v = {"code", "message"}

\* C9: on every value isApiResponse accepts, exactly one of isApiSuccess and
\* isApiError returns true: isApiSuccess exactly when success is true,
\* isApiError exactly when success is false.
C9_ArmsExclusive ==
    isApiResponse(value) =>
        /\ called = "isApiSuccess" =>
              /\ verdict = (value.v["success"].v = TRUE)
              /\ verdict # isApiError(value)
        /\ called = "isApiError" =>
              /\ verdict = (value.v["success"].v = FALSE)
              /\ verdict # isApiSuccess(value)

C9_Witness ==
    /\ isApiResponse(value)
    /\ "error" \in DOMAIN value.v /\ "data" \in DOMAIN value.v
    /\ called = "isApiError"
    /\ verdict = FALSE

---------------------------------------------------------------------------
(* The entity guard file (imports ./queue.types, ./job.types,               *)
(* ./content-item.types): helpers                                           *)

isObject(x) == TypeOf(x) = "object" /\ x.t # "null" /\ ~IsArray(x)

\* value.every((item) => typeof item === "string")
EveryString(items) == \A i \in DOMAIN items : TypeOf(items[i]) = "string"

\* isStringArray that forgets the element test
isStringArrayAnyElements(x) == IsArray(x)

\* isStringArray that tests the first element only
isStringArrayFirstElement(x) ==
    IsArray(x) /\ (Len(x.v) = 0 \/ TypeOf(x.v[1]) = "string")

isStringArray(x) == IsArray(x) /\ EveryString(x.v)

\* isDateLike that does not ask for a callable toDate
isDateLikeNoToDate(x) ==
    IF InstanceOfDate(x) THEN TRUE
    ELSE IF ~isObject(x) THEN FALSE
    ELSE /\ TypeOf(Get(x, "seconds")) = "number"
         /\ TypeOf(Get(x, "nanoseconds")) = "number"

isDateLike(x) ==
    IF InstanceOfDate(x) THEN TRUE
    ELSE IF ~isObject(x) THEN FALSE
    ELSE /\ TypeOf(Get(x, "seconds")) = "number"
         /\ TypeOf(Get(x, "nanoseconds")) = "number"
         /\ TypeOf(Get(x, "toDate")) = "function"

\* [literals].includes(x): only a string equals a string literal
Includes(literals, x) == x.t = "string" /\ x.v \in literals

\* value.every(...) raises a TypeError unless value is an array
EveryRaises(x) == ~IsArray(x)

\* whether isStringArray(x) raises: every is called once Array.isArray holds
isStringArrayRaises(x) == IsArray(x) /\ EveryRaises(x)

\* whether isDateLike(x) raises: the fields are read once isObject holds
isDateLikeRaises(x) ==
    IF InstanceOfDate(x) THEN FALSE
    ELSE IF ~isObject(x) THEN FALSE
    ELSE ReadRaises(x)

\* a guard that reads the fields of its argument without testing isObject first
ObjectGuardRaisesUnchecked(x, dateFields, arrayFields) ==
    \/ ReadRaises(x)
    \/ \E k \in dateFields : isDateLikeRaises(Get(x, k))
    \/ \E k \in arrayFields : isStringArrayRaises(Get(x, k))

\* whether a guard raises that begins `if (!isObject(value)) return false` and
\* then reads fields of value, handing dateFields to isDateLike, arrayFields to
\* isStringArray and the others to typeof, === and the literal guards
ObjectGuardRaises(x, dateFields, arrayFields) ==
    IF ~isObject(x) THEN FALSE
    ELSE \/ ReadRaises(x)
         \/ \E k \in dateFields : isDateLikeRaises(Get(x, k))
         \/ \E k \in arrayFields : isStringArrayRaises(Get(x, k))

---------------------------------------------------------------------------
(* queue.types: the declared unions and the guards that sit beside them *)

QueueStatus == {"pending", "processing", "success", "failed", "skipped"}
QueueItemType == {"job", "company"}
QueueSource == {"user_submission", "automated_scan", "scraper", "webhook", "email"}
AIProvider == {"claude", "openai", "gemini"}

\* isQueueStatus with one literal too many
isQueueStatusArchived(status) ==
    Includes({"pending", "processing", "success", "failed", "skipped", "archived"}, status)

\* isQueueStatus that answers false when it was the guard called last (a
\* matcher that keeps its position between calls)
isQueueStatusStateful(status) ==
    /\ called # "isQueueStatus"
    /\ Includes({"pending", "processing", "success", "failed", "skipped"}, status)

isQueueStatus(status) ==
    Includes({"pending", "processing", "success", "failed", "skipped"}, status)

isQueueItemType(type) == Includes({"job", "company"}, type)

---------------------------------------------------------------------------
(* Queue guards *)

isQueueSource(x) ==
    /\ TypeOf(x) = "string"
    /\ Includes({"user_submission", "automated_scan", "scraper", "webhook", "email",
                 "manual_submission", "user_request"}, x)

\* x == null || typeof x === "string": the loose comparison lets undefined through
NullishOrString(x) == x.t \in {"null", "undefined"} \/ TypeOf(x) = "string"

\* x === null || typeof x === "string"
NullOrString(x) == StrictEq(x, Null) \/ TypeOf(x) = "string"

\* isQueueItem that also validates the optional processed_at when it is there
isQueueItemChecksProcessedAt(x) ==
    IF ~isObject(x) THEN FALSE
    ELSE /\ isQueueItemType(Get(x, "type"))
         /\ isQueueStatus(Get(x, "status"))
         /\ TypeOf(Get(x, "url")) = "string"
         /\ TypeOf(Get(x, "company_name")) = "string"
         /\ NullOrString(Get(x, "company_id"))
         /\ isQueueSource(Get(x, "source"))
         /\ NullOrString(Get(x, "submitted_by"))
         /\ TypeOf(Get(x, "retry_count")) = "number"
         /\ TypeOf(Get(x, "max_retries")) = "number"
         /\ isDateLike(Get(x, "created_at"))
         /\ isDateLike(Get(x, "updated_at"))
         /\ (In("processed_at", x) => isDateLike(Get(x, "processed_at")))

isQueueItem(x) ==
    IF ~isObject(x) THEN FALSE
    ELSE /\ isQueueItemType(Get(x, "type"))
         /\ isQueueStatus(Get(x, "status"))
         /\ TypeOf(Get(x, "url")) = "string"
         /\ TypeOf(Get(x, "company_name")) = "string"
         /\ NullOrString(Get(x, "company_id"))
         /\ isQueueSource(Get(x, "source"))
         /\ NullOrString(Get(x, "submitted_by"))
         /\ TypeOf(Get(x, "retry_count")) = "number"
         /\ TypeOf(Get(x, "max_retries")) = "number"
         /\ isDateLike(Get(x, "created_at"))
         /\ isDateLike(Get(x, "updated_at"))

isAIProvider(x) == TypeOf(x) = "string" /\ Includes({"claude", "openai", "gemini"}, x)

---------------------------------------------------------------------------
(* Job guards *)

isApplicationPriority(x) ==
    \/ StrictEq(x, Str("High"))
    \/ StrictEq(x, Str("Medium"))
    \/ StrictEq(x, Str("Low"))

isJobMatch(x) ==
    IF ~isObject(x) THEN FALSE
    ELSE /\ TypeOf(Get(x, "url")) = "string"
         /\ TypeOf(Get(x, "companyName")) = "string"
         /\ TypeOf(Get(x, "jobTitle")) = "string"
         /\ TypeOf(Get(x, "jobDescription")) = "string"
         /\ TypeOf(Get(x, "matchScore")) = "number"
         /\ isStringArray(Get(x, "matchedSkills"))
         /\ isStringArray(Get(x, "missingSkills"))
         /\ isStringArray(Get(x, "matchReasons"))
         /\ isStringArray(Get(x, "keyStrengths"))
         /\ isStringArray(Get(x, "potentialConcerns"))
         /\ TypeOf(Get(x, "experienceMatch")) = "number"
         /\ isApplicationPriority(Get(x, "applicationPriority"))
         /\ isStringArray(Get(x, "customizationRecommendations"))
         /\ isDateLike(Get(x, "analyzedAt"))
         /\ isDateLike(Get(x, "createdAt"))
         /\ NullOrString(Get(x, "submittedBy"))
         /\ TypeOf(Get(x, "queueItemId")) = "string"

---------------------------------------------------------------------------
(* Content item guards *)

isContentItemType(x) ==
    /\ TypeOf(x) = "string"
    /\ Includes({"company", "project", "skill-group", "education", "profile-section",
                 "accomplishment"}, x)

hasBaseContentItemFields(x) ==
    /\ TypeOf(Get(x, "id")) = "string"
    /\ isContentItemType(Get(x, "type"))
    /\ TypeOf(Get(x, "userId")) = "string"
    /\ NullOrString(Get(x, "parentId"))
    /\ TypeOf(Get(x, "order")) = "number"
    /\ isDateLike(Get(x, "createdAt"))
    /\ isDateLike(Get(x, "updatedAt"))
    /\ TypeOf(Get(x, "createdBy")) = "string"
    /\ TypeOf(Get(x, "updatedBy")) = "string"

isCompanyItem(x) ==
    IF ~isObject(x) THEN FALSE
    ELSE IF ~hasBaseContentItemFields(x) THEN FALSE
    ELSE /\ StrictEq(Get(x, "type"), Str("company"))
         /\ TypeOf(Get(x, "company")) = "string"
         /\ TypeOf(Get(x, "startDate")) = "string"

\* isProjectItem that tests the discriminator only
isProjectItemNoFields(x) ==
    IF ~isObject(x) THEN FALSE
    ELSE IF ~hasBaseContentItemFields(x) THEN FALSE
    ELSE StrictEq(Get(x, "type"), Str("project"))

isProjectItem(x) ==
    IF ~isObject(x) THEN FALSE
    ELSE IF ~hasBaseContentItemFields(x) THEN FALSE
    ELSE /\ StrictEq(Get(x, "type"), Str("project"))
         /\ TypeOf(Get(x, "name")) = "string"
         /\ TypeOf(Get(x, "description")) = "string"

isSkillGroupItem(x) ==
    IF ~isObject(x) THEN FALSE
    ELSE IF ~hasBaseContentItemFields(x) THEN FALSE
    ELSE /\ StrictEq(Get(x, "type"), Str("skill-group"))
         /\ TypeOf(Get(x, "category")) = "string"
         /\ isStringArray(Get(x, "skills"))

\* isEducationItem that forgets the discriminator and tests the required field only
isEducationItemNoDiscriminator(x) ==
    IF ~isObject(x) THEN FALSE
    ELSE IF ~hasBaseContentItemFields(x) THEN FALSE
    ELSE TypeOf(Get(x, "institution")) = "string"

isEducationItem(x) ==
    IF ~isObject(x) THEN FALSE
    ELSE IF ~hasBaseContentItemFields(x) THEN FALSE
    ELSE /\ StrictEq(Get(x, "type"), Str("education"))
         /\ TypeOf(Get(x, "institution")) = "string"

isProfileSectionItem(x) ==
    IF ~isObject(x) THEN FALSE
    ELSE IF ~hasBaseContentItemFields(x) THEN FALSE
    ELSE /\ StrictEq(Get(x, "type"), Str("profile-section"))
         /\ TypeOf(Get(x, "heading")) = "string"
         /\ TypeOf(Get(x, "content")) = "string"

\* isAccomplishmentItem that trusts the base fields
isAccomplishmentItemNoBase(x) ==
    IF ~isObject(x) THEN FALSE
    ELSE /\ StrictEq(Get(x, "type"), Str("accomplishment"))
         /\ TypeOf(Get(x, "description")) = "string"

isAccomplishmentItem(x) ==
    IF ~isObject(x) THEN FALSE
    ELSE IF ~hasBaseContentItemFields(x) THEN FALSE
    ELSE /\ StrictEq(Get(x, "type"), Str("accomplishment"))
         /\ TypeOf(Get(x, "description")) = "string"

\* isContentItem that stops before the last variant
isContentItemFiveVariants(x) ==
    \/ isCompanyItem(x)
    \/ isProjectItem(x)
    \/ isSkillGroupItem(x)
    \/ isEducationItem(x)
    \/ isProfileSectionItem(x)

isContentItem(x) ==
    \/ isCompanyItem(x)
    \/ isProjectItem(x)
    \/ isSkillGroupItem(x)
    \/ isEducationItem(x)
    \/ isProfileSectionItem(x)
    \/ isAccomplishmentItem(x)

---------------------------------------------------------------------------
(* Job guards: listings, companies and resume intake data *)

\* isExperienceHighlight that also takes, for a point to emphasize, a
\* non-empty array of strings
isExperienceHighlightDeep(x) ==
    IF ~isObject(x) THEN FALSE
    ELSE /\ TypeOf(Get(x, "company")) = "string"
         /\ TypeOf(Get(x, "title")) = "string"
         /\ IsArray(Get(x, "pointsToEmphasize"))
         /\ \A i \in DOMAIN Get(x, "pointsToEmphasize").v :
               LET point == Get(x, "pointsToEmphasize").v[i] IN
               \/ TypeOf(point) = "string"
               \/ isStringArray(point) /\ Len(point.v) > 0

isExperienceHighlight(x) ==
    IF ~isObject(x) THEN FALSE
    ELSE /\ TypeOf(Get(x, "company")) = "string"
         /\ TypeOf(Get(x, "title")) = "string"
         /\ isStringArray(Get(x, "pointsToEmphasize"))

isProjectRecommendation(x) ==
    IF ~isObject(x) THEN FALSE
    ELSE /\ TypeOf(Get(x, "name")) = "string"
         /\ TypeOf(Get(x, "whyRelevant")) = "string"
         /\ isStringArray(Get(x, "pointsToHighlight"))

\* every that stops after the first element
EveryExperienceHighlightFirstOnly(items) ==
    \A i \in DOMAIN items \cap {1} : isExperienceHighlight(items[i])

\* data.experienceHighlights.every(isExperienceHighlight)
EveryExperienceHighlight(items) == \A i \in DOMAIN items : isExperienceHighlight(items[i])

\* data.projectsToInclude.every(isProjectRecommendation)
EveryProjectRecommendation(items) == \A i \in DOMAIN items : isProjectRecommendation(items[i])

isResumeIntakeData(x) ==
    IF ~isObject(x) THEN FALSE
    ELSE /\ TypeOf(Get(x, "jobId")) = "string"
         /\ TypeOf(Get(x, "jobTitle")) = "string"
         /\ TypeOf(Get(x, "company")) = "string"
         /\ TypeOf(Get(x, "targetSummary")) = "string"
         /\ isStringArray(Get(x, "skillsPriority"))
         /\ IsArray(Get(x, "experienceHighlights"))
         /\ EveryExperienceHighlight(Get(x, "experienceHighlights").v)
         /\ IsArray(Get(x, "projectsToInclude"))
         /\ EveryProjectRecommendation(Get(x, "projectsToInclude").v)
         /\ isStringArray(Get(x, "achievementAngles"))
         /\ isStringArray(Get(x, "atsKeywords"))

\* whether isResumeIntakeData(x) raises: every is called on
\* experienceHighlights and on projectsToInclude once the conjuncts before it,
\* Array.isArray among them, hold
isResumeIntakeDataRaises(x) ==
    IF ~isObject(x) THEN FALSE
    ELSE IF ReadRaises(x) THEN TRUE
    ELSE LET strings == /\ TypeOf(Get(x, "jobId")) = "string"
                        /\ TypeOf(Get(x, "jobTitle")) = "string"
                        /\ TypeOf(Get(x, "company")) = "string"
                        /\ TypeOf(Get(x, "targetSummary")) = "string"
                        /\ isStringArray(Get(x, "skillsPriority"))
             highlights == Get(x, "experienceHighlights")
             projects == Get(x, "projectsToInclude")
         IN IF ~(strings /\ IsArray(highlights)) THEN FALSE
            ELSE IF EveryRaises(highlights) THEN TRUE
            ELSE IF ~(EveryExperienceHighlight(highlights.v) /\ IsArray(projects)) THEN FALSE
            ELSE EveryRaises(projects)

isJobListing(x) ==
    IF ~isObject(x) THEN FALSE
    ELSE /\ TypeOf(Get(x, "title")) = "string"
         /\ TypeOf(Get(x, "company")) = "string"
         /\ TypeOf(Get(x, "companyWebsite")) = "string"
         /\ TypeOf(Get(x, "location")) = "string"
         /\ TypeOf(Get(x, "description")) = "string"
         /\ TypeOf(Get(x, "url")) = "string"

isCompany(x) ==
    IF ~isObject(x) THEN FALSE
    ELSE /\ TypeOf(Get(x, "name")) = "string"
         /\ TypeOf(Get(x, "website")) = "string"

---------------------------------------------------------------------------
(* Untyped values for the entity guards: well-formed documents with up to   *)
(* a bounded number of fields replaced or removed                           *)

\* a Firestore Timestamp: numeric seconds and nanoseconds, callable toDate
Timestamp == Obj([seconds |-> Num(1), nanoseconds |-> Num(0), toDate |-> Fn])
DateCands ==
    {Absent, Null, Str("2024-01-01"), Num(0), DateOf(0), Timestamp,
     Obj([seconds |-> Num(1), nanoseconds |-> Num(0)])}
StringCands == {Absent, Null, Num(1), Str("")}
NullableCands == {Absent, Undefined, Null, Str("p"), Num(1)}
NumberCands == {Absent, Null, Str("1"), NaN, Frac, Num(1)}

\* o with key k set to candidate c (removed when c is Absent)
Edit(o, k, c) == IF c.t = "absent" THEN Without(o, k) ELSE With(o, k, c)

\* every value reached from a member of S by at most n edits; cands[k] are the
\* candidates for key k
RECURSIVE Edited(_, _, _)
Edited(S, cands, n) ==
    IF n = 0 THEN S
    ELSE LET T == Edited(S, cands, n - 1)
         IN T \cup {Edit(o, k[1], k[2]) :
                      o \in T, k \in UNION {{<<j, c>> : c \in cands[j]} : j \in DOMAIN cands}}

---------------------------------------------------------------------------
(* Content items handed to the variant guards *)

MaxContentEdits == 1

ContentItemTypes ==
    {"company", "project", "skill-group", "education", "profile-section", "accomplishment"}

BaseFields(type) ==
    [id |-> Str("item-1"), type |-> Str(type), userId |-> Str("u1"), parentId |-> Null,
     order |-> Num(0), createdAt |-> DateOf(0), updatedAt |-> Timestamp,
     createdBy |-> Str("u1"), updatedBy |-> Str("u1")]

\* the required fields of each variant
RequiredFields(type) ==
    CASE type = "company" -> [company |-> Str("Acme"), startDate |-> Str("2020-01")]
      [] type = "project" -> [name |-> Str("p"), description |-> Str("d")]
      [] type = "skill-group" -> [category |-> Str("c"), skills |-> Arr(<<Str("ts")>>)]
      [] type = "education" -> [institution |-> Str("MIT")]
      [] type = "profile-section" -> [heading |-> Str("h"), content |-> Str("c")]
      [] type = "accomplishment" -> [description |-> Str("d")]

AllVariantFields ==
    [company |-> Str("Acme"), startDate |-> Str("2020-01"), name |-> Str("p"),
     description |-> Str("d"), category |-> Str("c"), skills |-> Arr(<<Str("ts")>>),
     institution |-> Str("MIT"), heading |-> Str("h"), content |-> Str("c")]

\* a variant with exactly its own fields, and one carrying every variant's fields
MinimalItem(type) == Obj(Merge(BaseFields(type), RequiredFields(type)))
FullItem(type) == Obj(Merge(BaseFields(type), AllVariantFields))

VariantStringCands == {Absent, Num(1), Str("x")}

ContentCands ==
    [id |-> StringCands,
     type |-> {Absent, Num(1), Str("widget")} \cup {Str(t) : t \in ContentItemTypes},
     userId |-> StringCands, parentId |-> NullableCands, order |-> NumberCands,
     createdAt |-> DateCands, updatedAt |-> DateCands,
     createdBy |-> StringCands, updatedBy |-> StringCands,
     company |-> VariantStringCands, startDate |-> VariantStringCands,
     name |-> VariantStringCands, description |-> VariantStringCands,
     category |-> VariantStringCands,
     skills |-> {Absent, Str("ts"), Arr(<<>>), Arr(<<Str("a"), Num(1)>>)},
     institution |-> VariantStringCands, heading |-> VariantStringCands,
     content |-> VariantStringCands]

ContentInputs ==
    NonObjects \cup
    Edited({MinimalItem(t) : t \in ContentItemTypes} \cup {FullItem(t) : t \in ContentItemTypes},
           ContentCands, MaxContentEdits)

InitContent ==
    /\ value \in ContentInputs
    /\ origin = "caller"
    /\ args = <<>>
    /\ called = "none"
    /\ verdict = FALSE
    /\ raised = "none"
    /\ NoRunner

CallIsContentItemType ==
    /\ called' = "isContentItemType"
    /\ verdict' = isContentItemType(value)
    /\ UNCHANGED <<value, origin, args, runnerVars>>
    /\ raised' = "none"

CallIsCompanyItem ==
    /\ called' = "isCompanyItem"
    /\ verdict' = (~ObjectGuardRaises(value, {"createdAt", "updatedAt"}, {}) /\ isCompanyItem(value))
    /\ raised' = Thrown(ObjectGuardRaises(value, {"createdAt", "updatedAt"}, {}))
    /\ UNCHANGED <<value, origin, args, runnerVars>>

CallIsProjectItem ==
    /\ called' = "isProjectItem"
    /\ verdict' = (~ObjectGuardRaises(value, {"createdAt", "updatedAt"}, {}) /\ isProjectItem(value))
    /\ raised' = Thrown(ObjectGuardRaises(value, {"createdAt", "updatedAt"}, {}))
    /\ UNCHANGED <<value, origin, args, runnerVars>>

CallIsSkillGroupItem ==
    /\ called' = "isSkillGroupItem"
    /\ verdict' = (~ObjectGuardRaises(value, {"createdAt", "updatedAt"}, {"skills"}) /\ isSkillGroupItem(value))
    /\ raised' = Thrown(ObjectGuardRaises(value, {"createdAt", "updatedAt"}, {"skills"}))
    /\ UNCHANGED <<value, origin, args, runnerVars>>

CallIsEducationItem ==
    /\ called' = "isEducationItem"
    /\ verdict' = (~ObjectGuardRaises(value, {"createdAt", "updatedAt"}, {}) /\ isEducationItem(value))
    /\ raised' = Thrown(ObjectGuardRaises(value, {"createdAt", "updatedAt"}, {}))
    /\ UNCHANGED <<value, origin, args, runnerVars>>

CallIsProfileSectionItem ==
    /\ called' = "isProfileSectionItem"
    /\ verdict' = (~ObjectGuardRaises(value, {"createdAt", "updatedAt"}, {}) /\ isProfileSectionItem(value))
    /\ raised' = Thrown(ObjectGuardRaises(value, {"createdAt", "updatedAt"}, {}))
    /\ UNCHANGED <<value, origin, args, runnerVars>>

CallIsAccomplishmentItem ==
    /\ called' = "isAccomplishmentItem"
    /\ verdict' = (~ObjectGuardRaises(value, {"createdAt", "updatedAt"}, {}) /\ isAccomplishmentItem(value))
    /\ raised' = Thrown(ObjectGuardRaises(value, {"createdAt", "updatedAt"}, {}))
    /\ UNCHANGED <<value, origin, args, runnerVars>>

CallIsContentItem ==
    /\ called' = "isContentItem"
    /\ verdict' = (~ObjectGuardRaises(value, {"createdAt", "updatedAt"}, {"skills"}) /\ isContentItem(value))
    /\ raised' = Thrown(ObjectGuardRaises(value, {"createdAt", "updatedAt"}, {"skills"}))
    /\ UNCHANGED <<value, origin, args, runnerVars>>

NextContent ==
    \/ CallIsContentItemType
    \/ CallIsCompanyItem
    \/ CallIsProjectItem
    \/ CallIsSkillGroupItem
    \/ CallIsEducationItem
    \/ CallIsProfileSectionItem
    \/ CallIsAccomplishmentItem
    \/ CallIsContentItem

SpecContent == InitContent /\ [][NextContent]_vars

---------------------------------------------------------------------------
(* Claims about content items, checked under SpecContent *)

VariantGuards ==
    {"isCompanyItem", "isProjectItem", "isSkillGroupItem", "isEducationItem",
     "isProfileSectionItem", "isAccomplishmentItem"}

Accepts(guard, x) ==
    CASE guard = "isCompanyItem" -> isCompanyItem(x)
      [] guard = "isProjectItem" -> isProjectItem(x)
      [] guard = "isSkillGroupItem" -> isSkillGroupItem(x)
      [] guard = "isEducationItem" -> isEducationItem(x)
      [] guard = "isProfileSectionItem" -> isProfileSectionItem(x)
      [] guard = "isAccomplishmentItem" -> isAccomplishmentItem(x)

\* C3: for every input at most one of the six variant guards returns true: a
\* value one variant guard accepts is rejected by each of the other five.
C3_VariantsExclusive ==
    /\ Cardinality({g \in VariantGuards : Accepts(g, value)}) <= 1
    /\ (called \in VariantGuards /\ verdict = TRUE) =>
          \A g \in VariantGuards \ {called} : ~Accepts(g, value)

C3_Witness ==
    /\ value = FullItem("project")
    /\ called = "isProjectItem"
    /\ verdict = TRUE

\* the base shape of the specification, the discriminator left aside
HasString(o, k) == k \in DOMAIN o.v /\ o.v[k].t = "string"
DateLikeShape(x) ==
    \/ x.t = "date"
    \/ /\ x.t = "object"
       /\ {"seconds", "nanoseconds", "toDate"} \subseteq DOMAIN x.v
       /\ x.v["seconds"].t \in {"number", "nan", "fraction"}
       /\ x.v["nanoseconds"].t \in {"number", "nan", "fraction"}
       /\ x.v["toDate"].t = "function"
BaseShape(o) ==
    /\ o.t = "object"
    /\ \A k \in {"id", "userId", "createdBy", "updatedBy"} : HasString(o, k)
    /\ "parentId" \in DOMAIN o.v /\ o.v["parentId"].t \in {"null", "string"}
    /\ "order" \in DOMAIN o.v /\ o.v["order"].t \in {"number", "nan", "fraction"}
    /\ "createdAt" \in DOMAIN o.v /\ DateLikeShape(o.v["createdAt"])
    /\ "updatedAt" \in DOMAIN o.v /\ DateLikeShape(o.v["updatedAt"])
KnownDiscriminator(o) ==
    /\ "type" \in DOMAIN o.v
    /\ o.v["type"].t = "string"
    /\ o.v["type"].v \in ContentItemTypes

ProjectTypedEducation == Edit(MinimalItem("education"), "type", Str("project"))

\* C4: isContentItem(v) is true exactly when one of the six variant guards
\* accepts v; it is false when the base fields are valid but type is none of
\* the six literals, when type is a known literal but a required field of that
\* variant is absent, and for type "project" carrying only education's
\* institution.
C4_UnionGuard ==
    called = "isContentItem" =>
        /\ verdict = (\E g \in VariantGuards : Accepts(g, value))
        /\ (BaseShape(value) /\ ~KnownDiscriminator(value)) => verdict = FALSE
        /\ (BaseShape(value) /\ KnownDiscriminator(value)
              /\ ~(DOMAIN RequiredFields(value.v["type"].v) \subseteq DOMAIN value.v))
             => verdict = FALSE
        /\ value = ProjectTypedEducation => verdict = FALSE

C4_Witness ==
    /\ value = ProjectTypedEducation
    /\ called = "isContentItem"
    /\ verdict = FALSE

---------------------------------------------------------------------------
(* Queue items and enumeration literals handed to the queue guards *)

MaxQueueEdits == 2

ValidQueueItem ==
    Obj([type |-> Str("job"), status |-> Str("pending"),
         url |-> Str("https://example.com/job"), company_name |-> Str("Acme"),
         company_id |-> Null, source |-> Str("user_submission"), submitted_by |-> Null,
         retry_count |-> Num(0), max_retries |-> Num(3),
         created_at |-> DateOf(0), updated_at |-> Timestamp])

TypeLiterals == {"job", "company", "scrape", "other"}
StatusLiterals ==
    {"pending", "processing", "success", "failed", "skipped", "filtered", "archived"}
SourceLiterals ==
    {"user_submission", "automated_scan", "scraper", "webhook", "email",
     "manual_submission", "user_request", "api"}
ProviderLiterals == {"claude", "openai", "gemini", "llama"}

QueueCands ==
    [type |-> {Absent, Null, Num(1)} \cup {Str(t) : t \in TypeLiterals},
     status |-> {Absent, Null} \cup {Str(t) : t \in StatusLiterals},
     url |-> StringCands, company_name |-> StringCands,
     company_id |-> NullableCands,
     source |-> {Absent, Num(1)} \cup {Str(t) : t \in SourceLiterals},
     submitted_by |-> NullableCands,
     retry_count |-> NumberCands, max_retries |-> NumberCands,
     created_at |-> DateCands, updated_at |-> DateCands]

QueueInputs ==
    NonObjects
    \cup {Str(t) : t \in TypeLiterals \cup StatusLiterals \cup SourceLiterals \cup ProviderLiterals}
    \cup Edited({ValidQueueItem}, QueueCands, MaxQueueEdits)

InitQueue ==
    /\ value \in QueueInputs
    /\ origin = "caller"
    /\ args = <<>>
    /\ called = "none"
    /\ verdict = FALSE
    /\ raised = "none"
    /\ NoRunner

CallIsQueueStatus ==
    /\ called' = "isQueueStatus"
    /\ verdict' = isQueueStatus(value)
    /\ UNCHANGED <<value, origin, args, runnerVars>>
    /\ raised' = "none"

CallIsQueueItemType ==
    /\ called' = "isQueueItemType"
    /\ verdict' = isQueueItemType(value)
    /\ UNCHANGED <<value, origin, args, runnerVars>>
    /\ raised' = "none"

CallIsQueueSource ==
    /\ called' = "isQueueSource"
    /\ verdict' = isQueueSource(value)
    /\ UNCHANGED <<value, origin, args, runnerVars>>
    /\ raised' = "none"

CallIsQueueItem ==
    /\ called' = "isQueueItem"
    /\ verdict' = (~ObjectGuardRaises(value, {"created_at", "updated_at"}, {}) /\ isQueueItem(value))
    /\ raised' = Thrown(ObjectGuardRaises(value, {"created_at", "updated_at"}, {}))
    /\ UNCHANGED <<value, origin, args, runnerVars>>

CallIsAIProvider ==
    /\ called' = "isAIProvider"
    /\ verdict' = isAIProvider(value)
    /\ UNCHANGED <<value, origin, args, runnerVars>>
    /\ raised' = "none"

NextQueue ==
    \/ CallIsQueueStatus
    \/ CallIsQueueItemType
    \/ CallIsQueueSource
    \/ CallIsQueueItem
    \/ CallIsAIProvider

SpecQueue == InitQueue /\ [][NextQueue]_vars

---------------------------------------------------------------------------
(* Claims about queue items, checked under SpecQueue *)

QueueRequiredKeys ==
    {"type", "status", "url", "company_name", "company_id", "source", "submitted_by",
     "retry_count", "max_retries", "created_at", "updated_at"}

IsNumber(x) == x.t \in {"number", "nan", "fraction"}

\* field k of o is as the example of the specification has it
AsInExample(o, k) ==
    /\ k \in DOMAIN o.v
    /\ CASE k = "type" -> o.v[k] = Str("job")
         [] k = "status" -> o.v[k] = Str("pending")
         [] k \in {"url", "company_name"} -> o.v[k].t = "string"
         [] k \in {"company_id", "submitted_by"} -> o.v[k].t \in {"null", "string"}
         [] k = "source" -> isQueueSource(o.v[k])
         [] k \in {"retry_count", "max_retries"} -> IsNumber(o.v[k])
         [] k \in {"created_at", "updated_at"} -> DateLikeShape(o.v[k])

\* field k of o is outside what the specification allows for it
Invalid(o, k) ==
    \/ k \notin DOMAIN o.v
    \/ CASE k = "type" ->
              ~(o.v[k].t = "string" /\ o.v[k].v \in {"job", "company", "scrape"})
         [] k = "status" ->
              ~(o.v[k].t = "string" /\ o.v[k].v \in
                  {"pending", "processing", "success", "failed", "skipped", "filtered"})
         [] k \in {"url", "company_name"} -> o.v[k].t # "string"
         [] k \in {"company_id", "submitted_by"} -> o.v[k].t \notin {"null", "string"}
         [] k = "source" -> ~isQueueSource(o.v[k])
         [] k \in {"retry_count", "max_retries"} -> ~IsNumber(o.v[k])
         [] k \in {"created_at", "updated_at"} -> ~DateLikeShape(o.v[k])

\* C5: isQueueItem accepts every object with type "job", status "pending",
\* string url and company_name, company_id and submitted_by null or a string,
\* a source isQueueSource accepts, numeric retry_count and max_retries and
\* date-like created_at and updated_at; and it rejects the same object with any
\* single one of these fields made invalid (status "archived", for one).
C5_QueueItemExample ==
    (called = "isQueueItem" /\ value.t = "object") =>
        /\ (\A k \in QueueRequiredKeys : AsInExample(value, k)) => verdict = TRUE
        /\ \A k \in QueueRequiredKeys :
              (Invalid(value, k) /\ \A j \in QueueRequiredKeys \ {k} : AsInExample(value, j))
                 => verdict = FALSE

C5_Witness ==
    /\ value = Edit(ValidQueueItem, "status", Str("archived"))
    /\ called = "isQueueItem"
    /\ verdict = FALSE

\* C6: isQueueItemType accepts exactly job, company, scrape and isQueueStatus
\* exactly pending, processing, success, failed, skipped, filtered; so
\* isQueueItem accepts an otherwise valid item with type "scrape" or status
\* "filtered".
C6_SpecEnumerations ==
    /\ called = "isQueueItemType" =>
          verdict = (value.t = "string" /\ value.v \in {"job", "company", "scrape"})
    /\ called = "isQueueStatus" =>
          verdict = (value.t = "string" /\ value.v \in
                        {"pending", "processing", "success", "failed", "skipped", "filtered"})
    /\ (called = "isQueueItem"
          /\ value \in {Edit(ValidQueueItem, "type", Str("scrape")),
                        Edit(ValidQueueItem, "status", Str("filtered"))})
         => verdict = TRUE

\* C7: each enumeration guard accepts exactly the literals of the union
\* declared beside it: isQueueSource those of QueueSource, isAIProvider those of
\* AIProvider, isQueueStatus those of QueueStatus, isQueueItemType those of
\* QueueItemType.
C7_GuardsMatchDeclarations ==
    /\ called = "isQueueSource" => verdict = (value.t = "string" /\ value.v \in QueueSource)
    /\ called = "isAIProvider" => verdict = (value.t = "string" /\ value.v \in AIProvider)
    /\ called = "isQueueStatus" => verdict = (value.t = "string" /\ value.v \in QueueStatus)
    /\ called = "isQueueItemType" =>
          verdict = (value.t = "string" /\ value.v \in QueueItemType)

---------------------------------------------------------------------------
(* Job matches handed to isJobMatch *)

MaxJobEdits == 1
MaxArrayLen == 2

\* arrays of at most MaxArrayLen elements, strings and non-strings mixed
RECURSIVE SeqsUpTo(_, _)
SeqsUpTo(S, n) ==
    IF n = 0 THEN {<<>>}
    ELSE LET shorter == SeqsUpTo(S, n - 1)
         IN shorter \cup {Append(q, e) : q \in {r \in shorter : Len(r) = n - 1}, e \in S}

ArrayCands ==
    {Absent, Null, Str("ts"), EmptyObj}
    \cup {Arr(q) : q \in SeqsUpTo({Str("ts"), Num(1)}, MaxArrayLen)}

StringArrayKeys ==
    {"matchedSkills", "missingSkills", "matchReasons", "keyStrengths",
     "potentialConcerns", "customizationRecommendations"}

ValidJobMatch(skills, submittedBy) ==
    Obj([url |-> Str("https://example.com/job"), companyName |-> Str("Acme"),
         jobTitle |-> Str("Engineer"), jobDescription |-> Str("d"),
         matchScore |-> Num(85), matchedSkills |-> skills, missingSkills |-> skills,
         matchReasons |-> skills, keyStrengths |-> skills, potentialConcerns |-> skills,
         experienceMatch |-> Num(70), applicationPriority |-> Str("High"),
         customizationRecommendations |-> skills, analyzedAt |-> Timestamp,
         createdAt |-> DateOf(0), submittedBy |-> submittedBy,
         queueItemId |-> Str("q1")])

JobMatchCands ==
    [k \in DOMAIN ValidJobMatch(Arr(<<>>), Null).v |->
        CASE k \in StringArrayKeys -> ArrayCands
          [] k \in {"matchScore", "experienceMatch"} -> NumberCands
          [] k \in {"analyzedAt", "createdAt"} -> DateCands
          [] k = "submittedBy" -> NullableCands
          [] k = "applicationPriority" ->
               {Absent, Null, Num(1)} \cup
               {Str(p) : p \in {"High", "Medium", "Low", "high", "HIGH", "Critical", ""}}
          [] OTHER -> StringCands]

JobInputs ==
    NonObjects \cup
    Edited({ValidJobMatch(Arr(<<>>), Null), ValidJobMatch(Arr(<<Str("ts")>>), Str("u1"))},
           JobMatchCands, MaxJobEdits)

InitJob ==
    /\ value \in JobInputs
    /\ origin = "caller"
    /\ args = <<>>
    /\ called = "none"
    /\ verdict = FALSE
    /\ raised = "none"
    /\ NoRunner

CallIsJobMatch ==
    /\ called' = "isJobMatch"
    /\ verdict' = (~ObjectGuardRaises(value, {"analyzedAt", "createdAt"}, StringArrayKeys) /\ isJobMatch(value))
    /\ raised' = Thrown(ObjectGuardRaises(value, {"analyzedAt", "createdAt"}, StringArrayKeys))
    /\ UNCHANGED <<value, origin, args, runnerVars>>

NextJob == CallIsJobMatch

SpecJob == InitJob /\ [][NextJob]_vars

---------------------------------------------------------------------------
(* Claims about job matches, checked under SpecJob *)

OnlyStrings(x) == x.t = "array" /\ \A i \in 1..Len(x.v) : x.v[i].t = "string"

\* C10: whenever isJobMatch returns true, each of the six string-array fields
\* is present and is an array of strings only (possibly empty),
\* applicationPriority is exactly "High", "Medium" or "Low", submittedBy is
\* null or a string and queueItemId is a string.
C10_JobMatchFields ==
    (called = "isJobMatch" /\ verdict = TRUE) =>
        /\ value.t = "object"
        /\ \A k \in StringArrayKeys : k \in DOMAIN value.v /\ OnlyStrings(value.v[k])
        /\ "applicationPriority" \in DOMAIN value.v
        /\ value.v["applicationPriority"] \in {Str("High"), Str("Medium"), Str("Low")}
        /\ "submittedBy" \in DOMAIN value.v
        /\ value.v["submittedBy"].t \in {"null", "string"}
        /\ HasString(value, "queueItemId")

C10_Witness ==
    /\ called = "isJobMatch"
    /\ verdict = TRUE
    /\ value.v["matchedSkills"] = Arr(<<>>)
    /\ value.v["applicationPriority"] = Str("Low")

---------------------------------------------------------------------------
(* Entity guard file: configuration guards *)

isStopList(x) ==
    IF ~isObject(x) THEN FALSE
    ELSE /\ isStringArray(Get(x, "excludedCompanies"))
         /\ isStringArray(Get(x, "excludedKeywords"))
         /\ isStringArray(Get(x, "excludedDomains"))

isQueueSettings(x) ==
    IF ~isObject(x) THEN FALSE
    ELSE /\ TypeOf(Get(x, "maxRetries")) = "number"
         /\ TypeOf(Get(x, "retryDelaySeconds")) = "number"
         /\ TypeOf(Get(x, "processingTimeout")) = "number"

\* isAISettings that takes any string for the provider
isAISettingsAnyProvider(x) ==
    IF ~isObject(x) THEN FALSE
    ELSE /\ TypeOf(Get(x, "provider")) = "string"
         /\ TypeOf(Get(x, "model")) = "string"
         /\ TypeOf(Get(x, "minMatchScore")) = "number"
         /\ TypeOf(Get(x, "costBudgetDaily")) = "number"

isAISettings(x) ==
    IF ~isObject(x) THEN FALSE
    ELSE /\ isAIProvider(Get(x, "provider"))
         /\ TypeOf(Get(x, "model")) = "string"
         /\ TypeOf(Get(x, "minMatchScore")) = "number"
         /\ TypeOf(Get(x, "costBudgetDaily")) = "number"

---------------------------------------------------------------------------
(* The values handed to the helpers and to the configuration guards *)

DateLikeObjects ==
    {MkObj(c) : c \in [seconds : {Absent, Null, Str("1"), Num(1), NaN},
                       nanoseconds : {Absent, Str("0"), Num(0), Frac},
                       toDate : {Absent, Null, Str("toDate"), Fn}]}

DateLikeInputs ==
    DateLikeObjects
    \cup {DateOf(0), DateOf(1), Str("2024-01-01T00:00:00.000Z"), Num(1704067200),
          Arr(<<Num(1), Num(0), Fn>>), Arr(<<DateOf(0)>>)}

StopListInputs ==
    {MkObj(c) : c \in [excludedCompanies : ArrayCands,
                       excludedKeywords : ArrayCands,
                       excludedDomains : ArrayCands]}

QueueSettingsInputs ==
    {MkObj(c) : c \in [maxRetries : NumberCands,
                       retryDelaySeconds : {Absent, Num(60), Str("60")},
                       processingTimeout : {Absent, Null, Num(300)}]}

AISettingsInputs ==
    {MkObj(c) : c \in [provider : {Absent, Null, Num(1)} \cup {Str(p) : p \in ProviderLiterals},
                       model : {Absent, Num(4), Str("m")},
                       minMatchScore : {Absent, Str("70"), Frac, Num(70)},
                       costBudgetDaily : {Absent, Null, Num(5)}]}

SettingsInputs ==
    NonObjects \cup (ArrayCands \ {Absent}) \cup DateLikeInputs
    \cup StopListInputs \cup QueueSettingsInputs \cup AISettingsInputs

InitSettings ==
    /\ value \in SettingsInputs
    /\ origin = "caller"
    /\ args = <<>>
    /\ called = "none"
    /\ verdict = FALSE
    /\ raised = "none"
    /\ NoRunner

CallIsDateLike ==
    /\ called' = "isDateLike"
    /\ verdict' = (~isDateLikeRaises(value) /\ isDateLike(value))
    /\ raised' = Thrown(isDateLikeRaises(value))
    /\ UNCHANGED <<value, origin, args, runnerVars>>

CallIsStringArray ==
    /\ called' = "isStringArray"
    /\ verdict' = (~isStringArrayRaises(value) /\ isStringArray(value))
    /\ raised' = Thrown(isStringArrayRaises(value))
    /\ UNCHANGED <<value, origin, args, runnerVars>>

CallIsStopList ==
    /\ called' = "isStopList"
    /\ verdict' = (~ObjectGuardRaises(value, {}, {"excludedCompanies", "excludedKeywords", "excludedDomains"}) /\ isStopList(value))
    /\ raised' = Thrown(ObjectGuardRaises(value, {}, {"excludedCompanies", "excludedKeywords", "excludedDomains"}))
    /\ UNCHANGED <<value, origin, args, runnerVars>>

CallIsQueueSettings ==
    /\ called' = "isQueueSettings"
    /\ verdict' = (~ObjectGuardRaises(value, {}, {}) /\ isQueueSettings(value))
    /\ raised' = Thrown(ObjectGuardRaises(value, {}, {}))
    /\ UNCHANGED <<value, origin, args, runnerVars>>

CallIsAISettings ==
    /\ called' = "isAISettings"
    /\ verdict' = (~ObjectGuardRaises(value, {}, {}) /\ isAISettings(value))
    /\ raised' = Thrown(ObjectGuardRaises(value, {}, {}))
    /\ UNCHANGED <<value, origin, args, runnerVars>>

NextSettings ==
    \/ CallIsDateLike
    \/ CallIsStringArray
    \/ CallIsStopList
    \/ CallIsQueueSettings
    \/ CallIsAISettings

SpecSettings == InitSettings /\ [][NextSettings]_vars

---------------------------------------------------------------------------
(* Claims about the helpers and the configuration guards, checked under     *)
(* SpecSettings                                                             *)

\* the three members of a timestamp, any one of which may be missing
TimestampKeys == {"seconds", "nanoseconds", "toDate"}

\* C11: isDateLike(v) is true exactly when v is a native Date or a non-null,
\* non-array object with a numeric seconds, a numeric nanoseconds and a
\* callable toDate; an object lacking any one of the three, and a date given
\* as a string or as a number, is rejected.
C11_IsDateLike ==
    called = "isDateLike" =>
        /\ verdict = DateLikeShape(value)
        /\ (value.t = "object" /\ ~(TimestampKeys \subseteq DOMAIN value.v)) => verdict = FALSE
        /\ TypeOf(value) \in {"string", "number"} => verdict = FALSE

C11_Witness ==
    /\ value = Obj([seconds |-> Num(1), nanoseconds |-> Num(0)])
    /\ called = "isDateLike"
    /\ verdict = FALSE

---------------------------------------------------------------------------
(* src/guards.ts: strings, read character by character *)

Min(a, b) == IF a < b THEN a ELSE b
Abs(n) == IF n < 0 THEN 0 - n ELSE n

Ch(s, i) == SubSeq(s, i, i)
Take(s, n) == SubSeq(s, 1, Min(n, Len(s)))
Drop(s, n) == SubSeq(s, Min(n, Len(s)) + 1, Len(s))
StartsWith(s, prefix) == Take(s, Len(prefix)) = prefix

DecimalDigits == "0123456789"
IsDigit(c) == \E i \in 1..10 : Ch(DecimalDigits, i) = c
DigitValue(c) == (CHOOSE i \in 1..10 : Ch(DecimalDigits, i) = c) - 1
IsDigits(s) == Len(s) > 0 /\ \A i \in 1..Len(s) : IsDigit(Ch(s, i))

RECURSIVE ToInt(_)
ToInt(s) ==
    IF s = "" THEN 0
    ELSE 10 * ToInt(Take(s, Len(s) - 1)) + DigitValue(Ch(s, Len(s)))

\* n written with w digits, zero-padded (padStart)
RECURSIVE Pad(_, _)
Pad(n, w) ==
    IF w = 0 THEN ""
    ELSE Pad(n \div 10, w - 1) \o Ch(DecimalDigits, (n % 10) + 1)

\* the number of digits s begins with
RECURSIVE DigitRun(_)
DigitRun(s) ==
    IF s = "" \/ ~IsDigit(Ch(s, 1)) THEN 0 ELSE 1 + DigitRun(Drop(s, 1))

---------------------------------------------------------------------------
(* src/guards.ts: the Date built by new Date(value) and date.toISOString()  *)
(* A time value is a day number since 1970-01-01 and the millisecond of the *)
(* day, or the invalid time (NaN).                                          *)

MsPerDay == 86400000
MaxDay == 100000000

InvalidTime == [valid |-> FALSE]
TimeOf(day, ms) == [valid |-> TRUE, day |-> day, ms |-> ms]

IsLeapYear(y) == (y % 4 = 0 /\ y % 100 # 0) \/ y % 400 = 0
DaysInMonth(y, m) ==
    IF m = 2 THEN (IF IsLeapYear(y) THEN 29 ELSE 28)
    ELSE IF m \in {4, 6, 9, 11} THEN 30 ELSE 31

\* MakeDay: the day number of a civil date (a day past the end of the month
\* runs into the next month)
DaysFromCivil(year, m, d) ==
    LET y == IF m <= 2 THEN year - 1 ELSE year
        era == y \div 400
        yoe == y - era * 400
        mp == IF m > 2 THEN m - 3 ELSE m + 9
        doy == (153 * mp + 2) \div 5 + d - 1
        doe == yoe * 365 + yoe \div 4 - yoe \div 100 + doy
    IN era * 146097 + doe - 719468

\* YearFromTime, MonthFromTime, DateFromTime
CivilFromDays(day) ==
    LET z == day + 719468
        era == z \div 146097
        doe == z - era * 146097
        yoe == (doe - doe \div 1460 + doe \div 36524 - doe \div 146096) \div 365
        doy == doe - (365 * yoe + yoe \div 4 - yoe \div 100)
        mp == (5 * doy + 2) \div 153
        d == doy - (153 * mp + 2) \div 5 + 1
        m == IF mp < 10 THEN mp + 3 ELSE mp - 9
        y == yoe + era * 400 + (IF m <= 2 THEN 1 ELSE 0)
    IN [year |-> y, month |-> m, day |-> d]

\* TimeClip of a civil date and a time of day shifted by offset minutes
MakeTime(year, m, d, msOfDay, offset) ==
    LET shifted == msOfDay - offset * 60000
        day == DaysFromCivil(year, m, d) + shifted \div MsPerDay
        ms == shifted % MsPerDay
    IN IF Abs(day) > MaxDay \/ (day = MaxDay /\ ms > 0) THEN InvalidTime
       ELSE TimeOf(day, ms)

\* the host: its time zone (minutes east of UTC) and whether its parser
\* accepts more than the ECMAScript date-time string format
Engines == [tz : {-300, 0, 60}, lenient : BOOLEAN]

NoParse == [ok |-> FALSE]

\* sep followed by two digits
Field(s, sep) ==
    IF Len(s) >= 3 /\ Ch(s, 1) = sep /\ IsDigits(SubSeq(s, 2, 3))
    THEN [ok |-> TRUE, n |-> ToInt(SubSeq(s, 2, 3)), rest |-> Drop(s, 3)]
    ELSE NoParse

\* YYYY or the expanded year +YYYYYY / -YYYYYY (-000000 is not a year)
ParseYear(s) ==
    IF Len(s) >= 7 /\ Ch(s, 1) \in {"+", "-"} /\ IsDigits(SubSeq(s, 2, 7))
    THEN IF Take(s, 7) = "-000000" THEN NoParse
         ELSE [ok |-> TRUE,
               n |-> (IF Ch(s, 1) = "-" THEN 0 - ToInt(SubSeq(s, 2, 7)) ELSE ToInt(SubSeq(s, 2, 7))),
               rest |-> Drop(s, 7)]
    ELSE IF Len(s) >= 4 /\ IsDigits(Take(s, 4))
    THEN [ok |-> TRUE, n |-> ToInt(Take(s, 4)), rest |-> Drop(s, 4)]
    ELSE NoParse

\* YYYY, YYYY-MM or YYYY-MM-DD (a lenient host also reads YYYY/MM/DD)
ParseDate(s, sep) ==
    LET y == ParseYear(s) IN
    IF ~y.ok THEN NoParse
    ELSE LET mo == Field(y.rest, sep) IN
         IF ~mo.ok THEN [ok |-> TRUE, year |-> y.n, month |-> 1, day |-> 1, rest |-> y.rest]
         ELSE LET d == Field(mo.rest, sep) IN
              IF ~d.ok
              THEN [ok |-> TRUE, year |-> y.n, month |-> mo.n, day |-> 1, rest |-> mo.rest]
              ELSE [ok |-> TRUE, year |-> y.n, month |-> mo.n, day |-> d.n, rest |-> d.rest]

\* .sss: three digits (a lenient host reads any number of digits)
ParseFraction(s, lenient) ==
    IF s = "" \/ Ch(s, 1) # "." THEN [ok |-> TRUE, n |-> 0, rest |-> s]
    ELSE LET run == DigitRun(Drop(s, 1)) IN
         IF run = 3 \/ (lenient /\ run > 0)
         THEN [ok |-> TRUE,
               n |-> ToInt(Take(Take(Drop(s, 1), run) \o "00", 3)),
               rest |-> Drop(s, 1 + run)]
         ELSE NoParse

\* Z or +HH:mm or -HH:mm; nothing means local time
ParseZone(s, tz) ==
    IF s = "" THEN [ok |-> TRUE, offset |-> tz]
    ELSE IF s = "Z" THEN [ok |-> TRUE, offset |-> 0]
    ELSE LET h == Field(s, Ch(s, 1)) IN
         IF Ch(s, 1) \notin {"+", "-"} \/ ~h.ok THEN NoParse
         ELSE LET m == Field(h.rest, ":") IN
              IF ~m.ok \/ m.rest # "" \/ h.n > 23 \/ m.n > 59 THEN NoParse
              ELSE [ok |-> TRUE,
                    offset |-> (IF Ch(s, 1) = "-" THEN 0 - 1 ELSE 1) * (h.n * 60 + m.n)]

\* THH:mm, THH:mm:ss or THH:mm:ss.sss and the zone; hour 24 only as 24:00:00.000
ParseTime(s, e) ==
    LET h == Field(s, Ch(s, 1)) IN
    IF ~h.ok THEN NoParse
    ELSE LET mi == Field(h.rest, ":") IN
         IF ~mi.ok THEN NoParse
         ELSE LET sec == Field(mi.rest, ":")
                  afterSec == IF sec.ok THEN sec.rest ELSE mi.rest
                  secs == IF sec.ok THEN sec.n ELSE 0
                  frac == IF sec.ok THEN ParseFraction(afterSec, e.lenient)
                          ELSE [ok |-> TRUE, n |-> 0, rest |-> afterSec]
              IN IF ~frac.ok THEN NoParse
                 ELSE LET zone == ParseZone(frac.rest, e.tz) IN
                      IF \/ ~zone.ok
                         \/ h.n > 24 \/ mi.n > 59 \/ secs > 59
                         \/ (h.n = 24 /\ (mi.n # 0 \/ secs # 0 \/ frac.n # 0))
                      THEN NoParse
                      ELSE [ok |-> TRUE,
                            ms |-> ((h.n * 60 + mi.n) * 60 + secs) * 1000 + frac.n,
                            offset |-> zone.offset]

\* new Date(s): the time value Date.parse gives for the string s on host e
\* (a lenient host reads a day up to 31 in any month, YYYY/MM/DD as a local
\* date and a space in the place of T)
NewDate(s, e) ==
    LET iso == ParseDate(s, "-")
        slashed == ParseDate(s, "/")
        isLegacy == e.lenient /\ iso.ok /\ Len(slashed.rest) < Len(iso.rest)
        date == IF isLegacy THEN slashed ELSE iso
    IN
    IF ~date.ok THEN InvalidTime
    ELSE IF date.month \notin 1..12 \/ date.day < 1 THEN InvalidTime
    ELSE IF date.day > (IF e.lenient THEN 31 ELSE DaysInMonth(date.year, date.month))
         THEN InvalidTime
    ELSE IF date.rest = ""
         THEN MakeTime(date.year, date.month, date.day, 0, IF isLegacy THEN e.tz ELSE 0)
    ELSE IF Ch(date.rest, 1) = "T" \/ (e.lenient /\ Ch(date.rest, 1) = " ")
         THEN LET time == ParseTime(date.rest, e) IN
              IF ~time.ok THEN InvalidTime
              ELSE MakeTime(date.year, date.month, date.day, time.ms, time.offset)
    ELSE InvalidTime

\* date.toISOString() of a valid time: YYYY-MM-DDTHH:mm:ss.sssZ, the year with
\* a sign and six digits outside 0000..9999
toISOString(t) ==
    LET c == CivilFromDays(t.day)
        year == IF c.year \in 0..9999 THEN Pad(c.year, 4)
                ELSE (IF c.year < 0 THEN "-" ELSE "+") \o Pad(Abs(c.year), 6)
    IN year \o "-" \o Pad(c.month, 2) \o "-" \o Pad(c.day, 2)
       \o "T" \o Pad(t.ms \div 3600000, 2)
       \o ":" \o Pad((t.ms \div 60000) % 60, 2)
       \o ":" \o Pad((t.ms \div 1000) % 60, 2)
       \o "." \o Pad(t.ms % 1000, 3) \o "Z"

\* isISODateString that only asks for a valid date
isISODateStringAnyForm(x, e) ==
    IF TypeOf(x) # "string" THEN FALSE
    ELSE NewDate(x.v, e).valid

isISODateString(x, e) ==
    IF TypeOf(x) # "string" THEN FALSE
    ELSE LET date == NewDate(x.v, e) IN
         date.valid /\ toISOString(date) = x.v

---------------------------------------------------------------------------
(* src/guards.ts: scalar refinements tested with a regular expression *)

\* the characters the pattern . does not match
LineTerminators == {"\n", "\r"}

\* /^https?:\/\//.test(s): the pattern without its .+
urlPrefixTest(s) ==
    /\ StartsWith(s, "http")
    /\ \E p \in {4} \cup {q \in {5} : Len(s) >= 5 /\ Ch(s, 5) = "s"} :
          Take(Drop(s, p), 3) = "://"

\* /^https?:\/\/.+/.test(s)
urlPatternTest(s) ==
    /\ StartsWith(s, "http")
    /\ \E p \in {4} \cup {q \in {5} : Len(s) >= 5 /\ Ch(s, 5) = "s"} :
          /\ Take(Drop(s, p), 3) = "://"
          /\ Len(s) >= p + 4
          /\ Ch(s, p + 4) \notin LineTerminators

\* isValidUrl whose pattern stops after the two slashes
isValidUrlPrefixOnly(x) ==
    IF TypeOf(x) # "string" THEN FALSE
    ELSE urlPrefixTest(x.v)

isValidUrl(x) ==
    IF TypeOf(x) # "string" THEN FALSE
    ELSE urlPatternTest(x.v)

\* the characters the class \s matches, among those the inputs are written with
WhiteSpace == {" ", "\t", "\n", "\r", "\f"}

\* [^\s@]
NotSpaceOrAt(c) == c \notin WhiteSpace \cup {"@"}

\* [^\s@]+ matches the characters from..to of s, all of them
NotSpaceOrAtRun(s, from, to) ==
    /\ from <= to
    /\ \A i \in from..to : NotSpaceOrAt(Ch(s, i))

\* /^[^\s@]+@[^\s@]+$/.test(s): the pattern without its dot
emailNoDotTest(s) ==
    \E at \in 1..Len(s) :
        /\ Ch(s, at) = "@"
        /\ NotSpaceOrAtRun(s, 1, at - 1)
        /\ NotSpaceOrAtRun(s, at + 1, Len(s))

\* /^[^\s@]+@[^\s@]+\.[^\s@]+$/.test(s): the regular expression tries every
\* place for the @ and for the dot that ends the second run
emailRegexTest(s) ==
    \E at \in 1..Len(s), dot \in 1..Len(s) :
        /\ Ch(s, at) = "@"
        /\ Ch(s, dot) = "."
        /\ NotSpaceOrAtRun(s, 1, at - 1)
        /\ NotSpaceOrAtRun(s, at + 1, dot - 1)
        /\ NotSpaceOrAtRun(s, dot + 1, Len(s))

\* isValidEmail whose pattern asks for no dot after the @
isValidEmailNoDot(x) ==
    IF TypeOf(x) # "string" THEN FALSE
    ELSE emailNoDotTest(x.v)

isValidEmail(x) ==
    IF TypeOf(x) # "string" THEN FALSE
    ELSE emailRegexTest(x.v)

---------------------------------------------------------------------------
(* src/guards.ts: arrays *)

\* value.length: of an array, of a string, or the property of that name
LengthOf(x) ==
    CASE x.t = "array" -> Num(Len(x.v))
      [] x.t = "string" -> Num(Len(x.v))
      [] OTHER -> Get(x, "length")

\* isNonEmptyArray that looks at the length only
isNonEmptyArrayByLength(x) ==
    LengthOf(x).t = "number" /\ LengthOf(x).v > 0

isNonEmptyArray(x) == IsArray(x) /\ LengthOf(x).v > 0

---------------------------------------------------------------------------
(* The values handed to the scalar guards of src/guards.ts *)

DateParts ==
    {"2024-01-01", "2024-02-29", "2024-02-30", "2023-02-29", "2024-13-01", "2024-00-10",
     "2024-1-1", "2024/01/01", "2024-01", "2024", "20240101", "1970-01-01", "0000-01-01",
     "9999-12-31", "+002024-01-01", "+010000-01-01", "-000001-12-31", "-000000-01-01"}

TimeParts ==
    {"", "T00:00:00.000", "T23:59:59.999", "T12:30:45.678", "T00:00:00", "T00:00",
     "T24:00:00.000", "T24:00:00.001", "T25:00:00.000", "T00:60:00.000", "T00:00:00.0",
     "T00:00:00.0000", " 00:00:00.000", "t00:00:00.000", "T00:00:00,000"}

ZoneParts == {"", "Z", "+00:00", "-05:00", "+01:00", "z", " Z", "+0000"}

DateStrings ==
    {d \o t \o z : d \in DateParts, t \in TimeParts, z \in ZoneParts}
    \cup {"", "Z", "not a date", "Mon, 01 Jan 2024", "2024-01-01T00:00:00.000Z "}

UrlSchemes == {"", "http", "https", "httpss", "HTTP", "ftp", " https"}
UrlSeparators == {"", ":", "//", ":/", "://"}
UrlRests == {"", "e", "example.com", "/", " ", "\n", "\r", "\nexample.com", "e\n"}

UrlStrings ==
    {scheme \o sep \o rest : scheme \in UrlSchemes, sep \in UrlSeparators, rest \in UrlRests}
    \cup {"not a url", "see https://example.com"}

EmailLocals == {"", "a", "a.b", "a b", " a", "a@"}
EmailAts == {"", "@"}
EmailDomains ==
    {"", "b", "b.c", ".c", "b.", ".", "b.c.d", ".b.c", "b.c.", "b..c", "b .c", "b.c ", "b.c\n",
     "b\t.c", "b.c@d", "b@c.d", "@b.c"}

EmailStrings ==
    {local \o at \o domain : local \in EmailLocals, at \in EmailAts, domain \in EmailDomains}

\* arrays of anything, and objects that have a length without being arrays
ArrayElements == {Undefined, Null, Num(0), Str(""), EmptyObj, Arr(<<>>)}
ArrayLikeInputs ==
    {Arr(q) : q \in SeqsUpTo(ArrayElements, MaxArrayLen)}
    \cup {Obj([length |-> n]) : n \in {Num(0), Num(1), Str("1")}}
    \cup {Obj([length |-> Num(1), first |-> Str("x")]), Obj([size |-> Num(1)])}

ScalarInputs ==
    NonObjects \cup {Str(s) : s \in DateStrings \cup UrlStrings \cup EmailStrings}
    \cup ArrayLikeInputs

InitScalar ==
    /\ value \in ScalarInputs
    /\ origin = "caller"
    /\ args = <<>>
    /\ called = "none"
    /\ verdict = FALSE
    /\ raised = "none"
    /\ NoRunner

CallIsISODateString ==
    \E e \in Engines :
        /\ called' = "isISODateString"
        /\ verdict' = isISODateString(value, e)
        /\ UNCHANGED <<value, origin, args, runnerVars>>
        /\ raised' = "none"

CallIsValidUrl ==
    /\ called' = "isValidUrl"
    /\ verdict' = isValidUrl(value)
    /\ UNCHANGED <<value, origin, args, runnerVars>>
    /\ raised' = "none"

CallIsNonEmptyArray ==
    /\ called' = "isNonEmptyArray"
    /\ verdict' = isNonEmptyArray(value)
    /\ UNCHANGED <<value, origin, args, runnerVars>>
    /\ raised' = "none"

CallIsValidEmail ==
    /\ called' = "isValidEmail"
    /\ verdict' = isValidEmail(value)
    /\ UNCHANGED <<value, origin, args, runnerVars>>
    /\ raised' = "none"

NextScalar ==
    \/ CallIsISODateString
    \/ CallIsValidUrl
    \/ CallIsNonEmptyArray
    \/ CallIsValidEmail

SpecScalar == InitScalar /\ [][NextScalar]_vars

---------------------------------------------------------------------------
(* Claims about the scalar guards of src/guards.ts, checked under SpecScalar *)

\* s is written YYYY-MM-DDTHH:mm:ss.sssZ (the year as +YYYYYY or -YYYYYY
\* outside 0000..9999) and names a date and a time of day that exist
CanonicalISO(s) ==
    LET expanded == s # "" /\ Ch(s, 1) \in {"+", "-"}
        yearLen == IF expanded THEN 7 ELSE 4
        year == IF ~expanded THEN ToInt(Take(s, 4))
                ELSE IF Ch(s, 1) = "-" THEN 0 - ToInt(SubSeq(s, 2, 7))
                ELSE ToInt(SubSeq(s, 2, 7))
        r == Drop(s, yearLen)
        two(i) == ToInt(SubSeq(r, i, i + 1))
    IN /\ Len(s) = yearLen + 20
       /\ IsDigits(SubSeq(s, yearLen - 3, yearLen))
       /\ expanded => (IsDigits(SubSeq(s, 2, 3)) /\ year \notin 0..9999)
       /\ \A i \in {2, 3, 5, 6, 8, 9, 11, 12, 14, 15, 17, 18, 19} : IsDigit(Ch(r, i))
       /\ Ch(r, 1) = "-" /\ Ch(r, 4) = "-" /\ Ch(r, 7) = "T" /\ Ch(r, 10) = ":"
       /\ Ch(r, 13) = ":" /\ Ch(r, 16) = "." /\ Ch(r, 20) = "Z"
       /\ two(2) \in 1..12
       /\ two(5) \in 1..DaysInMonth(year, two(2))
       /\ two(8) \in 0..23 /\ two(11) \in 0..59 /\ two(14) \in 0..59

\* C12: isISODateString(v) is true exactly when v is a string that parses to a
\* valid date whose toISOString() equals v, on every host: the canonical
\* YYYY-MM-DDTHH:mm:ss.sssZ is accepted, "2024-01-01" and every other
\* parseable form is rejected.
C12_IsISODateString ==
    called = "isISODateString" =>
        /\ verdict = (value.t = "string" /\ CanonicalISO(value.v))
        /\ \A e \in Engines :
              verdict = /\ value.t = "string"
                        /\ NewDate(value.v, e).valid
                        /\ toISOString(NewDate(value.v, e)) = value.v
        /\ value = Str("2024-01-01T00:00:00.000Z") => verdict = TRUE
        /\ value = Str("2024-01-01") => verdict = FALSE

C12_Witness ==
    /\ value = Str("2024-01-01")
    /\ \A e \in Engines : NewDate(value.v, e).valid
    /\ called = "isISODateString"
    /\ verdict = FALSE

\* s begins with http:// or https:// and goes on
HasHttpPrefix(s) ==
    \E prefix \in {"http://", "https://"} : StartsWith(s, prefix) /\ Len(s) > Len(prefix)

\* the character of s after its http:// or https://
AfterHttpPrefix(s) == IF StartsWith(s, "https://") THEN Ch(s, 9) ELSE Ch(s, 8)

\* C13 as stated: isValidUrl(v) is true exactly when v is a string that begins
\* with "http://" or "https://" followed by at least one further character,
\* whatever that character is.
C13_AnyFurtherCharacter ==
    called = "isValidUrl" =>
        verdict = (value.t = "string" /\ HasHttpPrefix(value.v))

\* C13: isValidUrl(v) is true exactly when v is a string that begins with
\* "http://" or "https://" and the next character exists and is not a line
\* terminator; "https://example.com" is accepted, "ftp://example.com",
\* "not a url", the bare "https://" and every non-string are rejected.
C13_IsValidUrl ==
    called = "isValidUrl" =>
        /\ verdict = /\ value.t = "string"
                     /\ HasHttpPrefix(value.v)
                     /\ AfterHttpPrefix(value.v) \notin LineTerminators
        /\ value = Str("https://example.com") => verdict = TRUE
        /\ value \in {Str("ftp://example.com"), Str("not a url"), Str("https://")}
              => verdict = FALSE
        /\ value.t # "string" => verdict = FALSE

C13_Witness ==
    /\ value = Str("https://\nexample.com")
    /\ called = "isValidUrl"
    /\ verdict = FALSE

---------------------------------------------------------------------------
(* Every guard that takes an unknown value, applied to documents of every   *)
(* entity and to what is left of them when fields are replaced or removed   *)

MaxGuardEdits == 1

ValidStopList ==
    Obj([excludedCompanies |-> Arr(<<>>), excludedKeywords |-> Arr(<<Str("ts")>>),
         excludedDomains |-> Arr(<<>>)])

ValidQueueSettings ==
    Obj([maxRetries |-> Num(3), retryDelaySeconds |-> Num(60), processingTimeout |-> Num(300)])

ValidAISettings ==
    Obj([provider |-> Str("claude"), model |-> Str("m"), minMatchScore |-> Num(70),
         costBudgetDaily |-> Num(5)])

ValidJobListing ==
    Obj([title |-> Str("Engineer"), company |-> Str("Acme"),
         companyWebsite |-> Str("https://example.com"), location |-> Str("Remote"),
         description |-> Str("d"), url |-> Str("https://example.com/job")])

ValidCompany == Obj([name |-> Str("Acme"), website |-> Str("https://example.com")])

ValidExperienceHighlight ==
    Obj([company |-> Str("Acme"), title |-> Str("Engineer"),
         pointsToEmphasize |-> Arr(<<Str("p")>>)])

ValidProjectRecommendation ==
    Obj([name |-> Str("p"), whyRelevant |-> Str("w"), pointsToHighlight |-> Arr(<<Str("p")>>)])

ValidResumeIntakeData ==
    Obj([jobId |-> Str("j1"), jobTitle |-> Str("Engineer"), company |-> Str("Acme"),
         targetSummary |-> Str("s"), skillsPriority |-> Arr(<<Str("ts")>>),
         experienceHighlights |-> Arr(<<ValidExperienceHighlight>>),
         projectsToInclude |-> Arr(<<ValidProjectRecommendation>>),
         achievementAngles |-> Arr(<<>>), atsKeywords |-> Arr(<<Str("k")>>)])

ValidSuccessResponse == Obj([success |-> JSTrue, data |-> Null])
ValidErrorResponse ==
    Obj([success |-> JSFalse, error |-> Obj([code |-> Str("X"), message |-> Str("m")])])

ValidDocuments ==
    {ValidQueueItem, ValidJobMatch(Arr(<<Str("ts")>>), Null), ValidStopList, ValidQueueSettings,
     ValidAISettings, ValidJobListing, ValidCompany, ValidResumeIntakeData,
     ValidSuccessResponse, ValidErrorResponse}
    \cup {MinimalItem(t) : t \in ContentItemTypes}

\* what a field is replaced with: nothing, null, a number, a string that is no
\* literal of any enumeration, an array holding null
WrongCands == {Absent, Null, Num(1), Str("other"), Arr(<<Null>>)}

GuardInputs ==
    NonObjects \cup {EmptyObj}
    \cup UNION {Edited({d}, [k \in DOMAIN d.v |-> WrongCands], MaxGuardEdits) :
                  d \in ValidDocuments}

InitGuards ==
    /\ value \in GuardInputs
    /\ origin = "caller"
    /\ args = <<>>
    /\ called = "none"
    /\ verdict = FALSE
    /\ raised = "none"
    /\ NoRunner

CallIsJobListing ==
    /\ called' = "isJobListing"
    /\ verdict' = (~ObjectGuardRaises(value, {}, {}) /\ isJobListing(value))
    /\ raised' = Thrown(ObjectGuardRaises(value, {}, {}))
    /\ UNCHANGED <<value, origin, args, runnerVars>>

CallIsCompany ==
    /\ called' = "isCompany"
    /\ verdict' = (~ObjectGuardRaises(value, {}, {}) /\ isCompany(value))
    /\ raised' = Thrown(ObjectGuardRaises(value, {}, {}))
    /\ UNCHANGED <<value, origin, args, runnerVars>>

CallIsResumeIntakeData ==
    /\ called' = "isResumeIntakeData"
    /\ verdict' = (~isResumeIntakeDataRaises(value) /\ isResumeIntakeData(value))
    /\ raised' = Thrown(isResumeIntakeDataRaises(value))
    /\ UNCHANGED <<value, origin, args, runnerVars>>

NextGuards ==
    \/ CallIsApiResponse
    \/ CallIsQueueItem
    \/ CallIsStopList
    \/ CallIsQueueSettings
    \/ CallIsAISettings
    \/ CallIsJobMatch
    \/ CallIsJobListing
    \/ CallIsCompany
    \/ CallIsResumeIntakeData
    \/ CallIsCompanyItem
    \/ CallIsProjectItem
    \/ CallIsSkillGroupItem
    \/ CallIsEducationItem
    \/ CallIsProfileSectionItem
    \/ CallIsAccomplishmentItem
    \/ CallIsContentItem

SpecGuards == InitGuards /\ [][NextGuards]_vars

---------------------------------------------------------------------------
(* Claims about every guard, checked under SpecGuards *)

UnknownGuards ==
    {"isApiResponse", "isQueueItem", "isStopList", "isQueueSettings", "isAISettings",
     "isJobMatch", "isJobListing", "isCompany", "isResumeIntakeData", "isCompanyItem",
     "isProjectItem", "isSkillGroupItem", "isEducationItem", "isProfileSectionItem",
     "isAccomplishmentItem", "isContentItem"}

\* the keys a value must have for the guard to take it for its entity
RequiredKeysOf(guard) ==
    CASE guard = "isApiResponse" -> {"success"}
      [] guard = "isQueueItem" -> QueueRequiredKeys
      [] guard = "isStopList" -> DOMAIN ValidStopList.v
      [] guard = "isQueueSettings" -> DOMAIN ValidQueueSettings.v
      [] guard = "isAISettings" -> DOMAIN ValidAISettings.v
      [] guard = "isJobMatch" -> DOMAIN ValidJobMatch(Arr(<<>>), Null).v
      [] guard = "isJobListing" -> DOMAIN ValidJobListing.v
      [] guard = "isCompany" -> DOMAIN ValidCompany.v
      [] guard = "isResumeIntakeData" -> DOMAIN ValidResumeIntakeData.v
      [] guard = "isCompanyItem" -> DOMAIN MinimalItem("company").v
      [] guard = "isProjectItem" -> DOMAIN MinimalItem("project").v
      [] guard = "isSkillGroupItem" -> DOMAIN MinimalItem("skill-group").v
      [] guard = "isEducationItem" -> DOMAIN MinimalItem("education").v
      [] guard = "isProfileSectionItem" -> DOMAIN MinimalItem("profile-section").v
      [] guard = "isAccomplishmentItem" -> DOMAIN MinimalItem("accomplishment").v
      [] guard = "isContentItem" -> DOMAIN BaseFields("company")

\* null, undefined, a primitive, an array (or a function)
NotAnObject(x) == x.t \notin {"object", "date"}

\* an object without one of the keys the guard requires
WrongShape(guard, x) ==
    x.t \in {"object", "date"} /\ \E k \in RequiredKeysOf(guard) : ~In(k, x)

\* C14: every guard taking an unknown value returns without raising, whatever
\* it is given, and returns false when given null, undefined, a primitive, an
\* array or an object that lacks a key of the guard's entity.
C14_WrongShapeIsFalse ==
    called \in UnknownGuards =>
        /\ raised = "none"
        /\ (NotAnObject(value) \/ WrongShape(called, value)) => verdict = FALSE

C14_Witness ==
    /\ value = With(ValidResumeIntakeData, "experienceHighlights", Str("other"))
    /\ called = "isResumeIntakeData"
    /\ verdict = FALSE
    /\ raised = "none"

---------------------------------------------------------------------------
(* Purity of the guards, checked under SpecQueue *)

QueueGuards ==
    {"isQueueStatus", "isQueueItemType", "isQueueSource", "isQueueItem", "isAIProvider"}

---------------------------------------------------------------------------
(* Numeric fields, checked under SpecQueue *)

\* an integer: a number that is neither NaN nor fractional
IsInteger(x) == x.t = "number"

\* C16: whenever isQueueItem returns true, retry_count and max_retries are
\* integers, and whenever a content-item variant guard returns true, order
\* is an integer: a fraction or NaN in one of these fields is rejected.
C16_IntegerFields ==
    /\ (called = "isQueueItem" /\ verdict = TRUE) =>
          /\ IsInteger(Get(value, "retry_count"))
          /\ IsInteger(Get(value, "max_retries"))
    /\ (called \in VariantGuards /\ verdict = TRUE) => IsInteger(Get(value, "order"))

---------------------------------------------------------------------------
(* String arrays and stop lists, checked under SpecSettings *)

StopListKeys == {"excludedCompanies", "excludedKeywords", "excludedDomains"}

\* the number of elements of an array that are not strings
NonStrings(x) == Cardinality({i \in 1..Len(x.v) : x.v[i].t # "string"})

\* a stop list whose three lists are arrays
HasThreeLists(x) ==
    x.t = "object" /\ \A k \in StopListKeys : k \in DOMAIN x.v /\ x.v[k].t = "array"

\* C17: isStringArray(v) is true exactly when v is an array whose elements
\* are all strings: the empty array is accepted and an array with a single
\* non-string element, wherever it stands, is rejected; isStopList rejects a
\* stop list with a non-string entry in one of its three lists and accepts
\* the stop list whose three lists are empty.
C17_StringArrays ==
    /\ called = "isStringArray" =>
          /\ verdict = (value.t = "array" /\ NonStrings(value) = 0)
          /\ value = Arr(<<>>) => verdict = TRUE
          /\ (value.t = "array" /\ NonStrings(value) = 1) => verdict = FALSE
    /\ (called = "isStopList" /\ HasThreeLists(value)) =>
          /\ (\E k \in StopListKeys : NonStrings(value.v[k]) > 0) => verdict = FALSE
          /\ (\A k \in StopListKeys : value.v[k] = Arr(<<>>)) => verdict = TRUE

C17_Witness ==
    /\ HasThreeLists(value)
    /\ value.v["excludedCompanies"] = Arr(<<>>)
    /\ value.v["excludedKeywords"] = Arr(<<Str("ts"), Num(1)>>)
    /\ value.v["excludedDomains"] = Arr(<<>>)
    /\ called = "isStopList"
    /\ verdict = FALSE

---------------------------------------------------------------------------
(* Non-empty arrays, checked under SpecScalar *)

\* C18: isNonEmptyArray(v) is true exactly when v is an array with at least
\* one element, whatever the elements are; it is false for the empty array
\* and for every value that is not an array, a non-empty string and an object
\* with a length property included.
C18_IsNonEmptyArray ==
    called = "isNonEmptyArray" =>
        /\ verdict = (value.t = "array" /\ value.v # <<>>)
        /\ value = Arr(<<>>) => verdict = FALSE
        /\ value.t # "array" => verdict = FALSE

C18_Witness ==
    /\ value = Obj([length |-> Num(1)])
    /\ called = "isNonEmptyArray"
    /\ verdict = FALSE

---------------------------------------------------------------------------
(* Composition of the guards, checked under SpecGuards *)

\* C19: a composite guard agrees with the narrower guards it embeds:
\* isQueueItem true implies isQueueSource(source), isQueueItemType(type) and
\* isQueueStatus(status); isAISettings true implies isAIProvider(provider),
\* that is provider is claude, openai or gemini; a variant guard true implies
\* isContentItemType(type).
C19_EmbeddedGuards ==
    /\ (called = "isQueueItem" /\ verdict = TRUE) =>
          /\ isQueueSource(Get(value, "source"))
          /\ isQueueItemType(Get(value, "type"))
          /\ isQueueStatus(Get(value, "status"))
    /\ (called = "isAISettings" /\ verdict = TRUE) =>
          /\ isAIProvider(Get(value, "provider"))
          /\ Get(value, "provider") \in {Str("claude"), Str("openai"), Str("gemini")}
    /\ (called \in VariantGuards /\ verdict = TRUE) =>
          isContentItemType(Get(value, "type"))

C19_Witness ==
    /\ value = ValidAISettings
    /\ called = "isAISettings"
    /\ verdict = TRUE

---------------------------------------------------------------------------
(* Every guard that takes an unknown value, applied to nested object graphs: *)
(* documents with a nested value in the place of one of their parts, and    *)
(* documents that contain themselves (a cycle, followed a number of times)  *)

MaxNesting == 2
MaxCycle == 5
MaxPlantDepth == 4

\* values nested up to n levels
RECURSIVE Nested(_)
Nested(n) ==
    IF n = 0 THEN {Str("s"), Num(1)}
    ELSE LET inner == Nested(n - 1)
         IN inner \cup {Arr(<<c>>) : c \in inner} \cup {Obj([child |-> c]) : c \in inner}

\* v with a member of news in the place of one part at most d levels down
RECURSIVE Planted(_, _, _)
Planted(v, d, news) ==
    news \cup
    (IF d = 0 THEN {}
     ELSE IF v.t = "object"
          THEN UNION {{With(v, k, c) : c \in Planted(v.v[k], d - 1, news)} : k \in DOMAIN v.v}
     ELSE IF v.t = "array"
          THEN UNION {{Arr([v.v EXCEPT ![i] = c]) : c \in Planted(v.v[i], d - 1, news)} :
                        i \in DOMAIN v.v}
     ELSE {})

\* doc holding itself in the array doc.key, the cycle followed n times
RECURSIVE Cyclic(_, _, _)
Cyclic(doc, key, n) ==
    IF n = 0 THEN doc ELSE With(doc, key, Arr(<<Cyclic(doc, key, n - 1)>>))

NestedInputs ==
    ValidDocuments
    \cup UNION {Planted(d, MaxPlantDepth, Nested(MaxNesting)) : d \in ValidDocuments}
    \cup {Cyclic(ValidResumeIntakeData, "experienceHighlights", n) : n \in 1..MaxCycle}
    \cup {Cyclic(ValidStopList, "excludedCompanies", n) : n \in 1..MaxCycle}
    \cup {Cyclic(MinimalItem("skill-group"), "skills", n) : n \in 1..MaxCycle}

InitNested ==
    /\ value \in NestedInputs
    /\ origin = "caller"
    /\ args = <<>>
    /\ called = "none"
    /\ verdict = FALSE
    /\ raised = "none"
    /\ NoRunner

SpecNested == InitNested /\ [][NextGuards]_vars

---------------------------------------------------------------------------
(* Claims about nested object graphs, checked under SpecNested *)

\* x with everything more than d levels down cut off: an object or an array
\* d levels down is left empty
RECURSIVE Prune(_, _)
Prune(x, d) ==
    IF x.t = "object"
    THEN (IF d = 0 THEN EmptyObj ELSE Obj([k \in DOMAIN x.v |-> Prune(x.v[k], d - 1)]))
    ELSE IF x.t = "array"
    THEN (IF d = 0 THEN Arr(<<>>) ELSE Arr([i \in DOMAIN x.v |-> Prune(x.v[i], d - 1)]))
    ELSE x

\* what the guard of that name returns on x
Verdict(guard, x) ==
    CASE guard = "isApiResponse" -> isApiResponse(x)
      [] guard = "isQueueItem" -> isQueueItem(x)
      [] guard = "isStopList" -> isStopList(x)
      [] guard = "isQueueSettings" -> isQueueSettings(x)
      [] guard = "isAISettings" -> isAISettings(x)
      [] guard = "isJobMatch" -> isJobMatch(x)
      [] guard = "isJobListing" -> isJobListing(x)
      [] guard = "isCompany" -> isCompany(x)
      [] guard = "isResumeIntakeData" -> isResumeIntakeData(x)
      [] guard = "isContentItem" -> isContentItem(x)
      [] guard \in VariantGuards -> Accepts(guard, x)

\* C20 as stated: every guard returns, and its verdict rests on nothing below
\* the elements of the arrays (and the fields of the objects) directly under
\* the top-level object, two levels down.
C20_TwoLevels ==
    called \in UnknownGuards =>
        /\ raised = "none"
        /\ verdict = Verdict(called, Prune(value, 2))

\* C20: every guard returns on every input, however deeply nested and
\* however often a cycle of it is followed, and its verdict rests on a fixed
\* depth of the input only: on nothing more than four levels down for
\* isResumeIntakeData (the elements of the string arrays of the elements of
\* experienceHighlights and projectsToInclude) and on nothing more than two
\* levels down for every other guard.
C20_BoundedDepth ==
    called \in UnknownGuards =>
        /\ raised = "none"
        /\ verdict = Verdict(called, Prune(value, IF called = "isResumeIntakeData" THEN 4 ELSE 2))

C20_Witness ==
    /\ value = Cyclic(ValidResumeIntakeData, "experienceHighlights", MaxCycle)
    /\ called = "isResumeIntakeData"
    /\ verdict = FALSE
    /\ raised = "none"

---------------------------------------------------------------------------
(* Claims about isValidEmail of src/guards.ts, checked under SpecScalar *)

Occurrences(s, c) == {i \in 1..Len(s) : Ch(s, i) = c}

\* local@domain.tld: one @, no whitespace, something before the @, and after
\* it a dot that has a character on each side
EmailShape(s) ==
    /\ Cardinality(Occurrences(s, "@")) = 1
    /\ \A i \in 1..Len(s) : Ch(s, i) \notin WhiteSpace
    /\ \A at \in Occurrences(s, "@") :
          /\ at > 1
          /\ \E dot \in Occurrences(s, ".") : at + 1 < dot /\ dot < Len(s)

\* C21: isValidEmail(v) is true if and only if v is a string that contains
\* exactly one @, contains no whitespace, has a non-empty local part, and
\* whose part after the @ contains a dot with at least one character before
\* it and at least one after it.
C21_IsValidEmail ==
    called = "isValidEmail" =>
        /\ raised = "none"
        /\ verdict = (TypeOf(value) = "string" /\ EmailShape(value.v))

C21_Witness ==
    /\ called = "isValidEmail"
    /\ value = Str("a.b@.b.c")
    /\ verdict = TRUE

---------------------------------------------------------------------------
(* Claims about the envelope constructors of src/guards.ts, checked under SpecApi *)

\* the optional argument was supplied, with a value of its declared type
Supplied(arg, type) == TypeOf(arg) = type /\ arg # Null

\* the key k of the object o is there exactly when arg was supplied, and holds arg
AppearsWhenSupplied(o, k, arg, type) ==
    /\ Supplied(arg, type) => (In(k, o) /\ Get(o, k) = arg)
    /\ arg = Undefined => ~In(k, o)

\* C22: a supplied optional argument always appears in the constructed
\* envelope: createSuccessResponse(data, m) has a message key if and only if
\* m was supplied, and then message equals m, for every string m including
\* the empty string; createErrorResponse(code, message, d) has error.details
\* equal to d exactly when d was supplied.
C22_SuppliedArgumentAppears ==
    /\ origin = "createSuccessResponse" =>
          AppearsWhenSupplied(value, "message", args[2], "string")
    /\ origin = "createErrorResponse" =>
          AppearsWhenSupplied(Get(value, "error"), "details", args[3], "object")

---------------------------------------------------------------------------
(* Queue items with optional fields, handed to the queue guards *)

MaxOptionalEdits == 2

OptionalQueueKeys ==
    {"id", "result_message", "error_details", "processed_at", "completed_at",
     "scrape_config", "sub_task", "pipeline_state", "parent_item_id"}

\* the optional fields as QueueItem declares them
DeclaredOptionalFields ==
    [id |-> Str("q1"), result_message |-> Str("done"), error_details |-> Str(""),
     processed_at |-> DateOf(0), completed_at |-> Null, scrape_config |-> EmptyObj,
     sub_task |-> Str("scrape"), pipeline_state |-> EmptyObj, parent_item_id |-> Null]

\* every optional field there with a value of a type it is not declared with
IllTypedOptionalFields ==
    [id |-> Num(1), result_message |-> Null, error_details |-> EmptyObj,
     processed_at |-> Str("yesterday"), completed_at |-> Num(0), scrape_config |-> Str("x"),
     sub_task |-> Num(2), pipeline_state |-> Arr(<<>>), parent_item_id |-> JSFalse]

OptionalCands ==
    [k \in OptionalQueueKeys |-> {Absent, Undefined, Null, Num(1), Str("x"), EmptyObj}]

\* a required field missing or null
RequiredCands == [k \in DOMAIN ValidQueueItem.v |-> {Absent, Null}]

OptionalInputs ==
    Edited({ValidQueueItem,
            Obj(Merge(ValidQueueItem.v, DeclaredOptionalFields)),
            Obj(Merge(ValidQueueItem.v, IllTypedOptionalFields))},
           Merge(RequiredCands, OptionalCands), MaxOptionalEdits)

InitOptional ==
    /\ value \in OptionalInputs
    /\ origin = "caller"
    /\ args = <<>>
    /\ called = "none"
    /\ verdict = FALSE
    /\ raised = "none"
    /\ NoRunner

SpecOptional == InitOptional /\ [][NextQueue]_vars

---------------------------------------------------------------------------
(* Claims about the optional fields of a queue item, checked under SpecOptional *)

\* x without the keys that are not in keys
Restrict(x, keys) == Obj([k \in DOMAIN x.v \cap keys |-> x.v[k]])

\* C23: the verdict of isQueueItem depends only on the eleven required
\* fields: it is the verdict on the value stripped of every other key, so two
\* values that agree on the required fields get the same verdict whatever
\* their optional fields are, absent, null or of the wrong type.
C23_OptionalFieldsIgnored ==
    called = "isQueueItem" =>
        /\ raised = "none"
        /\ verdict = isQueueItem(Restrict(value, QueueRequiredKeys))

C23_Witness ==
    /\ called = "isQueueItem"
    /\ value = Obj(Merge(ValidQueueItem.v, IllTypedOptionalFields))
    /\ verdict = TRUE

---------------------------------------------------------------------------
(* Claims about the nullable required fields, checked under SpecGuards *)

\* the required fields a guard lets be null
NullableKeysOf(guard) ==
    CASE guard = "isQueueItem" -> {"company_id", "submitted_by"}
      [] guard = "isJobMatch" -> {"submittedBy"}
      [] guard \in VariantGuards \cup {"isContentItem"} -> {"parentId"}
      [] OTHER -> {}

\* the key is there and holds null or a string
PresentNullOrString(x, k) ==
    /\ In(k, x)
    /\ Get(x, k) = Null \/ Get(x, k).t = "string"

\* C24: the nullable required fields must be present: isQueueItem accepts a
\* value only when company_id and submitted_by are each there and null or a
\* string, so it rejects a value without one of them; isJobMatch likewise
\* rejects a value without submittedBy, and every content-item variant guard
\* (and isContentItem) a value without parentId; an otherwise valid queue
\* item is accepted with null and with a string.
C24_NullableRequired ==
    /\ (called \in UnknownGuards /\ verdict) =>
          \A k \in NullableKeysOf(called) : PresentNullOrString(value, k)
    /\ (called = "isQueueItem"
        /\ \E k \in NullableKeysOf("isQueueItem"), c \in {Null, Str("other")} :
              value = With(ValidQueueItem, k, c)) => verdict

C24_Witness ==
    /\ called = "isCompanyItem"
    /\ value = Without(MinimalItem("company"), "parentId")
    /\ verdict = FALSE
    /\ raised = "none"

---------------------------------------------------------------------------
(* Claims about the shared base fields, checked under SpecContent *)

ContentGuards == VariantGuards \cup {"isContentItem"}

\* the discriminator and the required fields of its variant are valid: with
\* valid base fields put in, the value is accepted
VariantFieldsValid(o) ==
    /\ KnownDiscriminator(o)
    /\ \E g \in VariantGuards : Accepts(g, Obj(Merge(o.v, BaseFields(o.v["type"].v))))

\* C25: every content-item variant guard re-verifies the shared base fields:
\* when one of id, type, userId, parentId, order, createdAt, updatedAt,
\* createdBy, updatedBy is missing or ill-typed, all six variant guards and
\* isContentItem return false, even when the discriminator and the
\* variant-specific required fields are valid.
C25_BaseFieldsRechecked ==
    (called \in ContentGuards /\ value.t = "object"
        /\ ~(BaseShape(value) /\ KnownDiscriminator(value))) =>
        /\ verdict = FALSE
        /\ raised = "none"

C25_Witness ==
    /\ called = "isAccomplishmentItem"
    /\ value = Without(MinimalItem("accomplishment"), "updatedBy")
    /\ VariantFieldsValid(value)
    /\ verdict = FALSE

---------------------------------------------------------------------------
(* Resume intake data with arrays of highlights and recommendations *)

\* what the nested arrays hold: a highlight, a recommendation, each of them
\* without a field or with an ill-typed one, null
HighlightElements ==
    {ValidExperienceHighlight, ValidProjectRecommendation, Null,
     Without(ValidExperienceHighlight, "title"),
     With(ValidExperienceHighlight, "pointsToEmphasize", Arr(<<Str("p"), Num(1)>>))}

RecommendationElements ==
    {ValidProjectRecommendation, ValidExperienceHighlight, Null,
     Without(ValidProjectRecommendation, "name"),
     With(ValidProjectRecommendation, "pointsToHighlight", Str("p"))}

NotArrays == {Absent, Null, EmptyObj}

GapMitigationCands ==
    {Absent, Null, Str("none"),
     Arr(<<Obj([missingSkill |-> Str("go"), mitigationStrategy |-> Str("learn"),
                coverLetterPoint |-> Str("c")])>>),
     Arr(<<Null, Obj([missingSkill |-> Num(1)])>>)}

IntakeInputs ==
    {Edit(Edit(Edit(ValidResumeIntakeData, "experienceHighlights", h), "projectsToInclude", r),
          "gapMitigation", g) :
        h \in NotArrays \cup {Arr(q) : q \in SeqsUpTo(HighlightElements, MaxArrayLen)},
        r \in NotArrays \cup {Arr(q) : q \in SeqsUpTo(RecommendationElements, MaxArrayLen)},
        g \in GapMitigationCands}
    \cup HighlightElements \cup RecommendationElements \cup NonObjects

InitIntake ==
    /\ value \in IntakeInputs
    /\ origin = "caller"
    /\ args = <<>>
    /\ called = "none"
    /\ verdict = FALSE
    /\ raised = "none"
    /\ NoRunner

CallIsExperienceHighlight ==
    /\ called' = "isExperienceHighlight"
    /\ verdict' = (~ObjectGuardRaises(value, {}, {"pointsToEmphasize"})
                   /\ isExperienceHighlight(value))
    /\ raised' = Thrown(ObjectGuardRaises(value, {}, {"pointsToEmphasize"}))
    /\ UNCHANGED <<value, origin, args, runnerVars>>

CallIsProjectRecommendation ==
    /\ called' = "isProjectRecommendation"
    /\ verdict' = (~ObjectGuardRaises(value, {}, {"pointsToHighlight"})
                   /\ isProjectRecommendation(value))
    /\ raised' = Thrown(ObjectGuardRaises(value, {}, {"pointsToHighlight"}))
    /\ UNCHANGED <<value, origin, args, runnerVars>>

NextIntake ==
    \/ CallIsExperienceHighlight
    \/ CallIsProjectRecommendation
    \/ CallIsResumeIntakeData

SpecIntake == InitIntake /\ [][NextIntake]_vars

---------------------------------------------------------------------------
(* Claims about isResumeIntakeData, checked under SpecIntake *)

\* the fields of resume intake data that hold a string or an array of strings
IntakeScalarsValid(x) ==
    /\ \A k \in {"jobId", "jobTitle", "company", "targetSummary"} : HasString(x, k)
    /\ \A k \in {"skillsPriority", "achievementAngles", "atsKeywords"} :
          isStringArray(Get(x, k))

ElementVerdict(guard, x) ==
    CASE guard = "isExperienceHighlight" -> isExperienceHighlight(x)
      [] guard = "isProjectRecommendation" -> isProjectRecommendation(x)

\* every element of the array under key k of x satisfies the guard named
ElementsSatisfy(x, k, guard) ==
    /\ IsArray(Get(x, k))
    /\ \A i \in 1..Len(Get(x, k).v) : ElementVerdict(guard, Get(x, k).v[i])

\* C26: isResumeIntakeData validates its nested arrays element by element: it
\* returns true only if every element of experienceHighlights satisfies
\* isExperienceHighlight and every element of projectsToInclude satisfies
\* isProjectRecommendation, so one malformed element at any position makes it
\* return false; empty arrays are accepted; the optional gapMitigation is
\* never inspected.
C26_NestedArrays ==
    (called = "isResumeIntakeData" /\ value.t = "object") =>
        /\ raised = "none"
        /\ verdict = (/\ IntakeScalarsValid(value)
                      /\ ElementsSatisfy(value, "experienceHighlights", "isExperienceHighlight")
                      /\ ElementsSatisfy(value, "projectsToInclude", "isProjectRecommendation"))
        /\ (IntakeScalarsValid(value)
              /\ Get(value, "experienceHighlights") = Arr(<<>>)
              /\ Get(value, "projectsToInclude") = Arr(<<>>)) => verdict
        /\ verdict = isResumeIntakeData(Without(value, "gapMitigation"))

C26_Witness ==
    /\ called = "isResumeIntakeData"
    /\ Get(value, "experienceHighlights")
         = Arr(<<ValidExperienceHighlight, Without(ValidExperienceHighlight, "title")>>)
    /\ Get(value, "projectsToInclude") = Arr(<<>>)
    /\ Get(value, "gapMitigation") = Arr(<<Null, Obj([missingSkill |-> Num(1)])>>)
    /\ verdict = FALSE

---------------------------------------------------------------------------
(* Claims about the dispatch of isContentItem, checked under SpecContent *)

\* the variant guard a discriminator selects
GuardOf(type) ==
    CASE type = "company" -> "isCompanyItem"
      [] type = "project" -> "isProjectItem"
      [] type = "skill-group" -> "isSkillGroupItem"
      [] type = "education" -> "isEducationItem"
      [] type = "profile-section" -> "isProfileSectionItem"
      [] type = "accomplishment" -> "isAccomplishmentItem"

\* one dispatch on v.type, then the one guard it selects
Dispatch(v) ==
    IF v.t = "object" /\ KnownDiscriminator(v)
    THEN Accepts(GuardOf(v.v["type"].v), v)
    ELSE FALSE

\* C27: the ordered trial of variants in isContentItem is equivalent to a
\* single dispatch on the discriminator: isContentItem(v) is the verdict of
\* the one variant guard selected by v.type, and false when v.type is none of
\* the six literals; no other variant guard accepts v, so the order of the
\* trial does not matter.
C27_DispatchEquivalence ==
    called = "isContentItem" =>
        /\ verdict = Dispatch(value)
        /\ \A g \in VariantGuards :
              Accepts(g, value) => (KnownDiscriminator(value) /\ g = GuardOf(value.v["type"].v))

C27_Witness ==
    /\ called = "isContentItem"
    /\ value = FullItem("accomplishment")
    /\ verdict = TRUE

---------------------------------------------------------------------------
(* The safe test runner (SafeTestRunner): one process per runner, each     *)
(* call into the file system one step                                      *)

\* minutes
MAX_EXECUTION_TIME == 10
StaleLockAge == 15

\* how far the clock moves in one step, and where it stops
Tick == 5
MaxNow == 30

Alive(p) == runners[p].pc \notin {"none", "exited"}

\* process.exit(code)
Exit(p, code) ==
    runners' = [runners EXCEPT ![p].pc = "exited", ![p].exitCode = code]

\* an error thrown inside acquireLock: the catch of run() stops the monitor,
\* calls releaseLock, which does nothing as lockAcquired is false, and exits
FatalError(p) == Exit(p, 1)

Goto(p, pc) == runners' = [runners EXCEPT ![p].pc = pc]

\* the script is started: new SafeTestRunner(), then run() enters acquireLock
Start(p) ==
    /\ runners[p].pc \in {"none", "exited"}
    /\ runners' = [runners EXCEPT ![p] =
                      [pc |-> "existsSync", startTime |-> now, lockAcquired |-> FALSE,
                       exitWith |-> 0, caught |-> FALSE, exitCode |-> -1]]
    /\ UNCHANGED <<guardVars, lockFile, now>>

\* acquireLock: if (fs.existsSync(LOCK_FILE))
AcquireExistsSync(p) ==
    /\ runners[p].pc = "existsSync"
    /\ Goto(p, IF lockFile = NoFile THEN "writeFileSync" ELSE "readFileSync")
    /\ UNCHANGED <<guardVars, lockFile, now>>

\* acquireLock: read the lock and compare its age with 15 minutes
AcquireReadFileSync(p) ==
    /\ runners[p].pc = "readFileSync"
    /\ IF lockFile = NoFile THEN FatalError(p)
       ELSE IF now - lockFile.startTime > StaleLockAge THEN Goto(p, "unlinkSync")
       ELSE Exit(p, 1)
    /\ UNCHANGED <<guardVars, lockFile, now>>

\* acquireLock: fs.unlinkSync(LOCK_FILE) of the lock found stale
AcquireUnlinkSync(p) ==
    /\ runners[p].pc = "unlinkSync"
    /\ IF lockFile = NoFile
       THEN FatalError(p) /\ UNCHANGED lockFile
       ELSE Goto(p, "writeFileSync") /\ lockFile' = NoFile
    /\ UNCHANGED <<guardVars, now>>

\* acquireLock: write the lock, set lockAcquired; run() then starts the
\* monitor and the tests
AcquireWriteFileSync(p) ==
    /\ runners[p].pc = "writeFileSync"
    /\ lockFile' = [pid |-> p, startTime |-> now]
    /\ runners' = [runners EXCEPT ![p].pc = "running", ![p].lockAcquired = TRUE]
    /\ UNCHANGED <<guardVars, now>>

\* runTests resolves: the tests passed, failed, or could not be spawned
TestsClose(p) ==
    /\ runners[p].pc = "running"
    /\ \E success \in BOOLEAN :
          runners' = [runners EXCEPT ![p].pc = "release",
                                     ![p].exitWith = IF success THEN 0 ELSE 1]
    /\ UNCHANGED <<guardVars, lockFile, now>>

\* releaseLock: if (this.lockAcquired && fs.existsSync(LOCK_FILE)); without a
\* file to remove run() goes on to process.exit
ReleaseExistsSync(p) ==
    /\ runners[p].pc = "release"
    /\ IF runners[p].lockAcquired /\ lockFile # NoFile
       THEN Goto(p, "releaseUnlink")
       ELSE Exit(p, runners[p].exitWith)
    /\ UNCHANGED <<guardVars, lockFile, now>>

\* releaseLock: fs.unlinkSync(LOCK_FILE); when the file is gone by now the
\* error is caught by run(), whose catch calls releaseLock again and exits
\* with 1, and an error thrown there ends the process with 1 as well
ReleaseUnlinkSync(p) ==
    /\ runners[p].pc = "releaseUnlink"
    /\ IF lockFile # NoFile
       THEN Exit(p, runners[p].exitWith) /\ lockFile' = NoFile
       ELSE /\ UNCHANGED lockFile
            /\ IF runners[p].caught THEN Exit(p, 1)
               ELSE runners' = [runners EXCEPT ![p].pc = "release", ![p].exitWith = 1,
                                               ![p].caught = TRUE]
    /\ UNCHANGED <<guardVars, now>>

\* the monitor finds the memory above MAX_MEMORY_MB: terminateTests, process.exit(1)
MonitorMemory(p) ==
    /\ runners[p].pc = "running"
    /\ Exit(p, 1)
    /\ UNCHANGED <<guardVars, lockFile, now>>

\* the monitor finds executionTime > MAX_EXECUTION_TIME: terminateTests, process.exit(1)
MonitorTime(p) ==
    /\ runners[p].pc = "running"
    /\ now - runners[p].startTime > MAX_EXECUTION_TIME
    /\ Exit(p, 1)
    /\ UNCHANGED <<guardVars, lockFile, now>>

\* SIGINT (130) or SIGTERM (143), handled while run() awaits the tests: the
\* handler makes a new SafeTestRunner, whose lockAcquired is false, so its
\* releaseLock removes nothing
Signal(p) ==
    /\ runners[p].pc = "running"
    /\ \E code \in {130, 143} : Exit(p, code)
    /\ UNCHANGED <<guardVars, lockFile, now>>

\* time passes; the monitor of a runner whose tests ran too long fires first
Pass ==
    /\ now + Tick <= MaxNow
    /\ \A p \in Runners :
          runners[p].pc = "running" => now - runners[p].startTime <= MAX_EXECUTION_TIME
    /\ now' = now + Tick
    /\ UNCHANGED <<guardVars, lockFile, runners>>

InitRunner ==
    /\ value = Undefined
    /\ origin = "caller"
    /\ args = <<>>
    /\ called = "none"
    /\ verdict = FALSE
    /\ raised = "none"
    /\ NoRunner

NextRunner ==
    \/ \E p \in Runners :
          \/ Start(p)
          \/ AcquireExistsSync(p)
          \/ AcquireReadFileSync(p)
          \/ AcquireUnlinkSync(p)
          \/ AcquireWriteFileSync(p)
          \/ TestsClose(p)
          \/ ReleaseExistsSync(p)
          \/ ReleaseUnlinkSync(p)
          \/ MonitorMemory(p)
          \/ MonitorTime(p)
          \/ Signal(p)
    \/ Pass

SpecRunner == InitRunner /\ [][NextRunner]_vars

---------------------------------------------------------------------------
(* Claims about the lock of the safe test runner, checked under SpecRunner *)

\* the runner has lockAcquired true and its process is there
Holds(p) == Alive(p) /\ runners[p].lockAcquired

\* C28: the lock prevents concurrent test runs: under every interleaving of
\* two or more runners calling acquireLock on the same lock file, at most one
\* process at a time holds the lock.
C28_MutualExclusion ==
    Cardinality({p \in Runners : Holds(p)}) <= 1

\* the lock file is the one runner p wrote
LockOf(p) == lockFile # NoFile /\ lockFile.pid = p

\* C29: a runner that acquired the lock always releases it before its
\* process exits: on every exit path (tests pass, tests fail, fatal error,
\* termination by the memory or execution-time monitor, SIGINT, SIGTERM) the
\* lock file the runner created no longer exists once the process has exited.
C29_ReleasedOnExit ==
    \A p \in Runners :
        (runners[p].pc = "exited" /\ runners[p].lockAcquired) => ~LockOf(p)

\* the lock file is at most 15 minutes old
Fresh == lockFile # NoFile /\ now - lockFile.startTime <= StaleLockAge

\* runner p takes a step out of the program location pc
Leaves(p, pc) == runners[p].pc = pc /\ runners'[p] # runners[p]

\* C30: acquireLock treats an existing lock by its age: a caller that reads a
\* lock at most 15 minutes old exits with code 1 without acquiring the lock
\* and without changing or deleting the lock file; only a lock older than 15
\* minutes is removed as stale and replaced by the caller's own; and a runner
\* never deletes (or overwrites) a lock file that is held by another live
\* runner.
C30_LockByAge ==
    [][/\ \A p \in Runners :
             /\ (Leaves(p, "readFileSync") /\ Fresh) =>
                   /\ runners'[p].pc = "exited"
                   /\ runners'[p].exitCode = 1
                   /\ ~runners'[p].lockAcquired
                   /\ lockFile' = lockFile
             /\ (Leaves(p, "unlinkSync") /\ lockFile # NoFile) => ~Fresh
             /\ (Leaves(p, "readFileSync") /\ runners'[p].pc = "unlinkSync") => ~Fresh
       /\ \A q \in Runners :
             (LockOf(q) /\ Holds(q) /\ lockFile' # lockFile) => runners'[q] # runners[q]
      ]_vars

====
